---- MODULE Spec2Model ----
(***************************************************************************)
(* The outfit / pose history state machine of the virtual try-on studio    *)
(* (src/App.tsx with the controls of src/components/Canvas.tsx and the     *)
(* wardrobe panel of src/unnamed/part_001 and the start screen of          *)
(* src/unnamed/part_000).                                                  *)
(*                                                                         *)
(* React state is modelled by one variable per useState hook.  A handler   *)
(* runs against the values of the render that created it (its closure);    *)
(* an asynchronous handler keeps that closure across its await, so every   *)
(* operation in flight carries the render it was started from.  The        *)
(* desktop layout is modelled: the busy overlay of Canvas.tsx covers the   *)
(* image only, so Start Over / Undo / Redo and the outfit stack stay       *)
(* clickable while a synthesis call is outstanding.  The state updates of   *)
(* one handler or continuation are committed together (React batches them  *)
(* into one render), so each is one step.                                  *)
(*                                                                         *)
(* Indices (historyIndex, currentOutfitIndex, currentPoseIndex) are        *)
(* 0-based as in the source; TLA+ sequences are 1-based, see At and Slice. *)
(***************************************************************************)
EXTENDS Integers, Sequences, FiniteSets, TLC

VARIABLES
    originalUserImageUrl,   \* App.tsx:80   Null or an image
    generatedModelUrl,      \* App.tsx:81   Null or an image
    history,                \* App.tsx:82   sequence of HistoryState
    historyIndex,           \* App.tsx:83   0-based cursor, -1 when empty
    isLoading,              \* App.tsx:84
    error,                  \* App.tsx:86   "null" or a message
    wardrobe,               \* App.tsx:88   sequence of WardrobeItem
    pending,                \* promises not yet settled, each with its closure
    minted,                 \* number of custom garments uploaded so far
    start,                  \* part_000:19-22  the state hooks of StartScreen
    panelError,             \* part_001:61     the error of WardrobePanel
    last                    \* the handler or continuation that ran last

vars == <<originalUserImageUrl, generatedModelUrl, history, historyIndex,
          isLoading, error, wardrobe, pending, minted, start, panelError, last>>

---------------------------------------------------------------------------
(* Bounds of the model *)

\* the first NumPoses labels of POSE_INSTRUCTIONS are used
NumPoses == 2
\* the synthesis service answers a request with one of MaxVariant images
MaxVariant == 1
\* snapshots in the log
MaxHistory == 3
\* the pose navigation is followed over the first ManyPoses labels
ManyPoses == 4
\* snapshots in the log and promises outstanding when the poses are followed
PoseHistory == 4
PosePending == 1
\* snapshots in the log of a session that only goes forward
ForwardHistory == 7
\* promises outstanding at once
MaxPending == 2
\* custom garments uploaded in a session
MaxCustom == 1
\* the user clicks among the first MaxClick items of the default wardrobe
MaxClick == 2
\* snapshots in the log, and promises outstanding at once, of the deeper
\* specification SpecDeep
DeepHistory == 5
DeepPending == 1
\* snapshots in the log, and promises outstanding at once, of a session that is
\* followed from the start screen on
StartHistory == 2
StartPending == 2

---------------------------------------------------------------------------
(* Values *)

NoError == "null"

\* Image references are opaque to the program.  An image is named by the request
\* that produced it and by which of the service's possible answers it is:
\* <<kind, variant, garment id or pose index, source image>>.
Null == << >>
Variants == 1..MaxVariant
UserPhoto == <<"photo", 1, 0, << >> >>
ModelImages == { <<"model", v, 0, UserPhoto>> : v \in Variants }
TryOnImages(baseImage, g) == { <<"tryon", v, g.id, baseImage>> : v \in Variants }
PoseImages(baseImage, p) == { <<"pose", v, p, baseImage>> : v \in Variants }
Poses == 0..(NumPoses - 1)

\* types.ts: a layer without garment is the base model layer
NullGarment == [id |-> 0, category |-> "none"]

\* wardrobe.ts: the five default items (name and url are not read by the logic)
defaultWardrobe ==
    << [id |-> 1, category |-> "shirt"],
       [id |-> 2, category |-> "outerwear"],
       [id |-> 3, category |-> "pants"],
       [id |-> 4, category |-> "shoes"],
       [id |-> 5, category |-> "hat"] >>

\* types.ts: GarmentCategory
GarmentCategories == {"shirt", "outerwear", "pants", "shoes", "hat"}

\* categories a custom upload can get from the selected tab ('all' gives shirt)
UploadCategories == {"shirt"}

\* WardrobeModal handleFileChange: id is `custom-${Date.now()}`, a fresh id
customGarment(n, cat) == [id |-> 100 + n, category |-> cat]

---------------------------------------------------------------------------
(* JavaScript array and object helpers *)

At(s, i) == s[i + 1]
Defined(s, i) == i >= 0 /\ i < Len(s)
\* Array.prototype.slice(a, b) for 0 <= a
Slice(s, a, b) == SubSeq(s, a + 1, IF b > Len(s) THEN Len(s) ELSE b)

\* poseImages: an object with string keys, kept in insertion order as a
\* sequence of [pose, img]
HasPose(pi, p) == \E j \in 1..Len(pi) : pi[j].pose = p
ImageOf(pi, p) == pi[CHOOSE j \in 1..Len(pi) : pi[j].pose = p].img
\* Object.values(poseImages)[0], Null when the object is empty
FirstImage(pi) == IF Len(pi) = 0 THEN Null ELSE pi[1].img
\* poseImages[p] ?? Object.values(poseImages)[0]
ImageOrFirst(pi, p) == IF HasPose(pi, p) THEN ImageOf(pi, p) ELSE FirstImage(pi)
\* { ...poseImages, [p]: img }
PutPose(pi, p, img) ==
    IF HasPose(pi, p)
    THEN [j \in 1..Len(pi) |-> IF pi[j].pose = p THEN [pose |-> p, img |-> img] ELSE pi[j]]
    ELSE Append(pi, [pose |-> p, img |-> img])

\* activeLayers.findIndex(layer => layer.garment?.category === category), -1 if none
FindCategory(layers, cat) ==
    IF \E j \in 1..Len(layers) : layers[j].garment.category = cat
    THEN (CHOOSE j \in 1..Len(layers) :
            /\ layers[j].garment.category = cat
            /\ \A m \in 1..(j - 1) : layers[m].garment.category # cat) - 1
    ELSE -1

\* prev.find(item => item.id === garmentInfo.id)
InWardrobe(w, g) == \E j \in 1..Len(w) : w[j].id = g.id

---------------------------------------------------------------------------
(* The values derived on each render, App.tsx:92-98 *)

\* The closure of the handlers of the current render.  Of history the handlers
\* read history[historyIndex] (currentState) and history.slice(0, historyIndex + 1)
\* (recordNewState) only, so the closure keeps that prefix.
Closure(h, hi, gm, ld) ==
    [h |-> SubSeq(h, 1, IF hi + 1 > Len(h) THEN Len(h) ELSE hi + 1),
     hi |-> hi, gm |-> gm, ld |-> ld]
Render == Closure(history, historyIndex, generatedModelUrl, isLoading)

HasCurrent(h, hi) == Defined(h, hi)
currentState(h, hi) == At(h, hi)

\* a cursor test that is off by one
canUndoOffByOne(h, hi) == hi >= 0
canUndo(h, hi) == hi > 0
canRedo(h, hi) == hi < Len(h) - 1

activeOutfitLayers(st) == Slice(st.outfitHistory, 0, st.currentOutfitIndex + 1)

---------------------------------------------------------------------------
(* The history log *)

\* recordNewState without the slice: the new snapshot is appended to the whole log
recordNewStateNoTruncate(h, hi, newState) ==
    LET newHistory == h \o <<newState>>
    IN  [history |-> newHistory, historyIndex |-> Len(newHistory) - 1]

\* recordNewState, App.tsx:125-129
recordNewState(h, hi, newState) ==
    LET newHistory == Slice(h, 0, hi + 1) \o <<newState>>
    IN  [history |-> newHistory, historyIndex |-> Len(newHistory) - 1]

\* an initial snapshot keyed by the second pose label
initialStateWrongPose(generatedUrl) ==
    [ outfitHistory |-> << [garment |-> NullGarment,
                            poseImages |-> << [pose |-> 1, img |-> generatedUrl] >>] >>,
      currentOutfitIndex |-> 0,
      currentPoseIndex |-> 0 ]

\* handleModelFinalized, App.tsx:134-141
initialState(generatedUrl) ==
    [ outfitHistory |-> << [garment |-> NullGarment,
                            poseImages |-> << [pose |-> 0, img |-> generatedUrl] >>] >>,
      currentOutfitIndex |-> 0,
      currentPoseIndex |-> 0 ]

\* the log and its cursor
Log(h, hi) == [history |-> h, historyIndex |-> hi]

\* an undo that drops the snapshot it leaves
handleUndoPop(log) ==
    IF canUndo(log.history, log.historyIndex)
    THEN [history |-> SubSeq(log.history, 1, Len(log.history) - 1),
          historyIndex |-> log.historyIndex - 1]
    ELSE log

\* handleUndo, App.tsx:162-166
handleUndo(log) ==
    IF canUndo(log.history, log.historyIndex)
    THEN [log EXCEPT !.historyIndex = @ - 1]
    ELSE log

\* a redo that jumps to the newest snapshot
handleRedoToEnd(log) ==
    IF canRedo(log.history, log.historyIndex)
    THEN [log EXCEPT !.historyIndex = Len(log.history) - 1]
    ELSE log

\* handleRedo, App.tsx:168-172
handleRedo(log) ==
    IF canRedo(log.history, log.historyIndex)
    THEN [log EXCEPT !.historyIndex = @ + 1]
    ELSE log

\* What ran last: the handler or continuation, and for one that recorded a
\* snapshot the number of snapshots of the log it replaced (negative when the
\* log grew by more than one).
Op(name, cut) == [op |-> name, cut |-> cut, via |-> "none"]
\* the same for a pose selection, with the control that made it
OpVia(name, cut, via) == [op |-> name, cut |-> cut, via |-> via]
Cut(newHistory) == Len(history) + 1 - Len(newHistory)

RemoveAt(s, k) == SubSeq(s, 1, k - 1) \o SubSeq(s, k + 1, Len(s))

\* StartScreen as it is mounted, part_000:19-22
StartIdle ==
    [userImageUrl |-> Null, generatedModelUrl |-> Null,
     isGenerating |-> FALSE, error |-> NoError]

\* StartScreen and the main view replace each other (App.tsx:320-331): the
\* StartScreen or wardrobe panel that started a promise is unmounted, and the
\* updates of its own state by the continuation have no effect any more; the
\* promises of App's handlers belong to App, which stays
Unmount(ps) ==
    [k \in 1..Len(ps) |->
        IF ps[k].kind \in {"url", "read", "model"}
        THEN [ps[k] EXCEPT !.mounted = FALSE]
        ELSE ps[k]]

Init ==
    /\ originalUserImageUrl = Null
    /\ generatedModelUrl = Null
    /\ history = << >>
    /\ historyIndex = -1
    /\ isLoading = FALSE
    /\ error = NoError
    /\ wardrobe = defaultWardrobe
    /\ pending = << >>
    /\ minted = 0
    /\ start = StartIdle
    /\ panelError = NoError
    /\ last = Op("init", 0)

\* handleModelFinalized(originalUrl, generatedUrl), App.tsx:131-144
handleModelFinalized(originalUrl, generatedUrl) ==
    /\ originalUserImageUrl' = originalUrl
    /\ generatedModelUrl' = generatedUrl
    /\ history' = << initialState(generatedUrl) >>
    /\ historyIndex' = 0
    /\ last' = Op("finalize", 0)

\* StartScreen is rendered while generatedModelUrl is null (App.tsx:320-331);
\* the whole of it, from the upload to Proceed, taken as one step
ModelFinalized ==
    /\ generatedModelUrl = Null
    /\ \E originalUrl \in {UserPhoto}, generatedUrl \in ModelImages :
        handleModelFinalized(originalUrl, generatedUrl)
    /\ UNCHANGED <<isLoading, error, wardrobe, pending, minted, start, panelError>>

\* a start over that keeps the wardrobe and the error of the session
StartOverKeepsWardrobe ==
    /\ generatedModelUrl # Null
    /\ originalUserImageUrl' = Null
    /\ generatedModelUrl' = Null
    /\ history' = << >>
    /\ historyIndex' = -1
    /\ isLoading' = FALSE
    /\ last' = Op("startOver", 0)
    /\ pending' = Unmount(pending)
    /\ start' = StartIdle
    /\ panelError' = NoError
    /\ UNCHANGED <<error, wardrobe, minted>>

\* handleStartOver, App.tsx:146-156; the button is in Canvas (Canvas.tsx:95-101).
\* With generatedModelUrl null the main view, and the wardrobe panel in it, is
\* replaced by a new StartScreen (App.tsx:320-331)
StartOver ==
    /\ generatedModelUrl # Null
    /\ originalUserImageUrl' = Null
    /\ generatedModelUrl' = Null
    /\ history' = << >>
    /\ historyIndex' = -1
    /\ isLoading' = FALSE
    /\ error' = NoError
    /\ wardrobe' = defaultWardrobe
    /\ last' = Op("startOver", 0)
    /\ pending' = Unmount(pending)
    /\ start' = StartIdle
    /\ panelError' = NoError
    /\ UNCHANGED minted

\* the Undo button, disabled when !canUndo (Canvas.tsx:103-110)
Undo ==
    /\ generatedModelUrl # Null
    /\ canUndo(history, historyIndex)
    /\ LET r == handleUndo(Log(history, historyIndex))
       IN  /\ history' = r.history
           /\ historyIndex' = r.historyIndex
    /\ last' = Op("undo", 0)
    /\ UNCHANGED <<originalUserImageUrl, generatedModelUrl, isLoading,
                   error, wardrobe, pending, minted, start, panelError>>

\* the Redo button, disabled when !canRedo (Canvas.tsx:112-119)
Redo ==
    /\ generatedModelUrl # Null
    /\ canRedo(history, historyIndex)
    /\ LET r == handleRedo(Log(history, historyIndex))
       IN  /\ history' = r.history
           /\ historyIndex' = r.historyIndex
    /\ last' = Op("redo", 0)
    /\ UNCHANGED <<originalUserImageUrl, generatedModelUrl, isLoading,
                   error, wardrobe, pending, minted, start, panelError>>

\* a removal that deletes the removed layer from outfitHistory
handleRemoveLastGarmentDropsLayer(log) ==
    IF /\ HasCurrent(log.history, log.historyIndex)
       /\ currentState(log.history, log.historyIndex).currentOutfitIndex > 0
    THEN LET cs == currentState(log.history, log.historyIndex)
         IN  recordNewState(log.history, log.historyIndex,
                 [outfitHistory |-> Slice(cs.outfitHistory, 0, cs.currentOutfitIndex),
                  currentOutfitIndex |-> cs.currentOutfitIndex - 1,
                  currentPoseIndex |-> 0])
    ELSE log

\* a removal without the floor at the base layer
handleRemoveLastGarmentNoFloor(log) ==
    IF HasCurrent(log.history, log.historyIndex)
    THEN LET cs == currentState(log.history, log.historyIndex)
         IN  recordNewState(log.history, log.historyIndex,
                 [cs EXCEPT !.currentOutfitIndex = cs.currentOutfitIndex - 1,
                            !.currentPoseIndex = 0])
    ELSE log

\* handleRemoveLastGarment, App.tsx:251-259
handleRemoveLastGarment(log) ==
    IF /\ HasCurrent(log.history, log.historyIndex)
       /\ currentState(log.history, log.historyIndex).currentOutfitIndex > 0
    THEN LET cs == currentState(log.history, log.historyIndex)
         IN  recordNewState(log.history, log.historyIndex,
                 [cs EXCEPT !.currentOutfitIndex = cs.currentOutfitIndex - 1,
                            !.currentPoseIndex = 0])
    ELSE log

\* the remove button of the outfit stack (OutfitStack, App.tsx:379-381) runs
\* handleRemoveLastGarment; a recording needs room in the bounded log
RemoveLastGarmentWithin(maxHistory) ==
    /\ generatedModelUrl # Null
    /\ HasCurrent(history, historyIndex)
    /\ LET r == handleRemoveLastGarment(Log(history, historyIndex))
       IN  /\ r.historyIndex # historyIndex => historyIndex + 2 <= maxHistory
           /\ history' = r.history
           /\ historyIndex' = r.historyIndex
           /\ last' = IF r.historyIndex # historyIndex
                      THEN Op("removeLast", Cut(r.history))
                      ELSE Op("removeNoop", 0)
    /\ UNCHANGED <<originalUserImageUrl, generatedModelUrl, isLoading, error,
                   wardrobe, pending, minted, start, panelError>>

---------------------------------------------------------------------------
(* Garment selection *)

\* an operation waiting for a promise, with the closure of its handler
PendingOp(kind, g, idx, base, img, c) ==
    [kind |-> kind, g |-> g, idx |-> idx, base |-> base, img |-> img,
     h |-> c.h, hi |-> c.hi, gm |-> c.gm, ld |-> c.ld, mounted |-> TRUE]

ClosureOf(p) == [h |-> p.h, hi |-> p.hi, gm |-> p.gm, ld |-> p.ld]

\* activeGarmentIds, App.tsx:105-108 (outfitHistory is [] without a current state)
activeGarmentIds(h, hi) ==
    IF HasCurrent(h, hi)
    THEN LET al == activeOutfitLayers(currentState(h, hi))
         IN  {al[j].garment.id : j \in {m \in 1..Len(al) : al[m].garment # NullGarment}}
    ELSE {}

\* a handler without the redo check: every selection goes to synthesis
IsGarmentRedoNever(st, g) ==
    FALSE

\* a redo check that compares the category instead of the id
IsGarmentRedoByCategory(st, g) ==
    /\ Defined(st.outfitHistory, st.currentOutfitIndex + 1)
    /\ At(st.outfitHistory, st.currentOutfitIndex + 1).garment.category = g.category

\* the redo check of handleGarmentSelect, App.tsx:179-180
IsGarmentRedo(st, g) ==
    /\ Defined(st.outfitHistory, st.currentOutfitIndex + 1)
    /\ At(st.outfitHistory, st.currentOutfitIndex + 1).garment # NullGarment
    /\ At(st.outfitHistory, st.currentOutfitIndex + 1).garment.id = g.id

\* a base slice without the replacement check: the garment is always appended
baseHistorySliceAppends(st, g) ==
    Slice(st.outfitHistory, 0, st.currentOutfitIndex + 1)

\* a base slice that keeps the matched layer
baseHistorySliceKeepsMatched(st, g) ==
    LET activeLayers == Slice(st.outfitHistory, 0, st.currentOutfitIndex + 1)
        existingLayerIndex == FindCategory(activeLayers, g.category)
    IN  IF existingLayerIndex # -1 /\ existingLayerIndex > 0
        THEN Slice(st.outfitHistory, 0, existingLayerIndex + 1)
        ELSE activeLayers

\* a base slice that keeps the inactive layers when nothing matches
baseHistorySliceKeepsInactive(st, g) ==
    LET activeLayers == Slice(st.outfitHistory, 0, st.currentOutfitIndex + 1)
        existingLayerIndex == FindCategory(activeLayers, g.category)
    IN  IF existingLayerIndex # -1 /\ existingLayerIndex > 0
        THEN Slice(st.outfitHistory, 0, existingLayerIndex)
        ELSE st.outfitHistory

\* baseHistorySlice, App.tsx:194-206
baseHistorySlice(st, g) ==
    LET activeLayers == Slice(st.outfitHistory, 0, st.currentOutfitIndex + 1)
        existingLayerIndex == FindCategory(activeLayers, g.category)
    IN  IF existingLayerIndex # -1 /\ existingLayerIndex > 0
        THEN Slice(st.outfitHistory, 0, existingLayerIndex)
        ELSE activeLayers

\* a base image that is always the first-inserted image of the base layer
baseImageForGenerationFirst(st, g) ==
    LET base == baseHistorySlice(st, g)
    IN  IF Len(base) = 0 THEN Null
        ELSE FirstImage(base[Len(base)].poseImages)

\* baseImageForGeneration, App.tsx:208-214; Null when one of the two throws fires
baseImageForGeneration(st, g) ==
    LET base == baseHistorySlice(st, g)
    IN  IF Len(base) = 0 THEN Null
        ELSE ImageOrFirst(base[Len(base)].poseImages, st.currentPoseIndex)

\* an apply whose new layer stores no image
appliedStateWithoutImage(base, g, pose, newImageUrl) ==
    LET newLayer == [garment |-> g, poseImages |-> << >>]
        updatedOutfitHistory == base \o <<newLayer>>
    IN  [ outfitHistory |-> updatedOutfitHistory,
          currentOutfitIndex |-> Len(updatedOutfitHistory) - 1,
          currentPoseIndex |-> pose ]

\* an apply whose new layer has no garment
appliedStateWithoutGarment(base, g, pose, newImageUrl) ==
    LET newLayer == [garment |-> NullGarment,
                     poseImages |-> << [pose |-> pose, img |-> newImageUrl] >>]
        updatedOutfitHistory == base \o <<newLayer>>
    IN  [ outfitHistory |-> updatedOutfitHistory,
          currentOutfitIndex |-> Len(updatedOutfitHistory) - 1,
          currentPoseIndex |-> pose ]

\* the snapshot a successful apply records, App.tsx:219-231
appliedState(base, g, pose, newImageUrl) ==
    LET newLayer == [garment |-> g, poseImages |-> << [pose |-> pose, img |-> newImageUrl] >>]
        updatedOutfitHistory == base \o <<newLayer>>
    IN  [ outfitHistory |-> updatedOutfitHistory,
          currentOutfitIndex |-> Len(updatedOutfitHistory) - 1,
          currentPoseIndex |-> pose ]

\* a wardrobe update that does not look for the id
addToWardrobeAlways(prev, g) == Append(prev, g)

\* setWardrobe(prev => ...), App.tsx:234-239
addToWardrobe(prev, g) == IF InWardrobe(prev, g) THEN prev ELSE Append(prev, g)

\* handleGarmentSelect up to its await, App.tsx:175-217, run with closure c;
\* rest is the pending list once the caller's own promise is taken out
\* a garment redo that overwrites the current snapshot instead of recording one
recordGarmentRedoInPlace(h, hi, st) ==
    [history |-> Slice(h, 0, hi) \o
                   <<[st EXCEPT !.currentOutfitIndex = st.currentOutfitIndex + 1,
                                !.currentPoseIndex = 0]>>,
     historyIndex |-> hi]

\* the recording of the garment redo, App.tsx:181-185
recordGarmentRedo(h, hi, st) ==
    recordNewState(h, hi, [st EXCEPT !.currentOutfitIndex = st.currentOutfitIndex + 1,
                                     !.currentPoseIndex = 0])

GarmentSelect(c, g, rest) ==
    IF c.gm = Null \/ c.ld \/ ~HasCurrent(c.h, c.hi)
    THEN /\ pending' = rest
         /\ last' = Op("garmentReturn", 0)
         /\ UNCHANGED <<originalUserImageUrl, generatedModelUrl, history,
                        historyIndex, isLoading, error, wardrobe>>
    ELSE LET cs == currentState(c.h, c.hi) IN
         IF IsGarmentRedo(cs, g)
         THEN LET r == recordGarmentRedo(c.h, c.hi, cs)
              IN  /\ history' = r.history
                  /\ historyIndex' = r.historyIndex
                  /\ pending' = rest
                  /\ last' = Op("garmentRedo", Cut(r.history))
                  /\ UNCHANGED <<originalUserImageUrl, generatedModelUrl,
                                 isLoading, error, wardrobe>>
         ELSE IF baseImageForGeneration(cs, g) = Null
         THEN \* a throw before the await: catch and finally run in the same tick
              /\ error' = "Failed to apply garment"
              /\ isLoading' = FALSE
              /\ pending' = rest
              /\ last' = Op("garmentThrow", 0)
              /\ UNCHANGED <<originalUserImageUrl, generatedModelUrl, history,
                             historyIndex, wardrobe>>
         ELSE /\ error' = NoError
              /\ isLoading' = TRUE
              /\ pending' = Append(rest,
                     PendingOp("tryon", g, cs.currentPoseIndex, baseHistorySlice(cs, g),
                               baseImageForGeneration(cs, g), c))
              /\ last' = Op("garmentStart", 0)
              /\ UNCHANGED <<originalUserImageUrl, generatedModelUrl, history,
                             historyIndex, wardrobe>>

\* handleGarmentClick up to its await, part_001:64-68: urlToFile is pending and
\* will call the onGarmentSelect of this render
GarmentClickWithin(maxHistory, maxPending) ==
    /\ generatedModelUrl # Null
    /\ Len(pending) < maxPending
    /\ historyIndex + 2 <= maxHistory
    /\ \E j \in 1..Len(wardrobe) :
        /\ j <= MaxClick \/ j > Len(defaultWardrobe)
        /\ ~(isLoading \/ wardrobe[j].id \in activeGarmentIds(history, historyIndex))
        /\ pending' = Append(pending,
               PendingOp("url", wardrobe[j], 0, << >>, Null, Render))
    /\ panelError' = NoError
    /\ last' = Op("garmentClick", 0)
    /\ UNCHANGED <<originalUserImageUrl, generatedModelUrl, history, historyIndex,
                   isLoading, error, wardrobe, minted, start>>

\* urlToFile resolves, part_001:68-69
UrlResolve ==
    \E k \in 1..Len(pending) :
        /\ pending[k].kind = "url"
        /\ GarmentSelect(ClosureOf(pending[k]), pending[k].g, RemoveAt(pending, k))
        /\ UNCHANGED <<minted, start, panelError>>

\* urlToFile rejects, part_001:70-74: only the panel's own error is set
UrlReject ==
    \E k \in 1..Len(pending) :
        /\ pending[k].kind = "url"
        /\ pending' = RemoveAt(pending, k)
        /\ panelError' = IF pending[k].mounted
                         THEN "Failed to load wardrobe item"
                         ELSE panelError
        /\ last' = Op("urlReject", 0)
        /\ UNCHANGED <<originalUserImageUrl, generatedModelUrl, history, historyIndex,
                       isLoading, error, wardrobe, minted, start>>

\* handleFileChange of the wardrobe panel, part_001:77-94, for an image file
UploadGarmentWithin(maxHistory, maxPending) ==
    /\ generatedModelUrl # Null
    /\ ~isLoading
    /\ minted < MaxCustom
    /\ Len(pending) < maxPending
    /\ historyIndex + 2 <= maxHistory
    /\ \E cat \in UploadCategories :
        GarmentSelect(Render, customGarment(minted + 1, cat), pending)
    /\ minted' = minted + 1
    /\ UNCHANGED <<start, panelError>>

\* generateVirtualTryOnImage resolves, App.tsx:217-239 and 244-247
TryOnSuccess ==
    \E k \in 1..Len(pending) :
      \E newImageUrl \in TryOnImages(pending[k].img, pending[k].g) :
        /\ pending[k].kind = "tryon"
        /\ LET p == pending[k]
               r == recordNewState(p.h, p.hi, appliedState(p.base, p.g, p.idx, newImageUrl))
           IN  /\ history' = r.history
               /\ historyIndex' = r.historyIndex
               /\ wardrobe' = addToWardrobe(wardrobe, p.g)
               /\ last' = Op("garmentOk", Cut(r.history))
        /\ isLoading' = FALSE
        /\ pending' = RemoveAt(pending, k)
        /\ UNCHANGED <<originalUserImageUrl, generatedModelUrl, error, minted, start, panelError>>

\* a failure path that still adds the garment to the wardrobe
TryOnFailureAddsToWardrobe ==
    \E k \in 1..Len(pending) :
        /\ pending[k].kind = "tryon"
        /\ error' = "Failed to apply garment"
        /\ isLoading' = FALSE
        /\ wardrobe' = addToWardrobe(wardrobe, pending[k].g)
        /\ pending' = RemoveAt(pending, k)
        /\ last' = Op("garmentFail", 0)
        /\ UNCHANGED <<originalUserImageUrl, generatedModelUrl, history, historyIndex,
                       minted, start, panelError>>

\* a failure path that issues the call again
TryOnFailureRetries ==
    \E k \in 1..Len(pending) :
        /\ pending[k].kind = "tryon"
        /\ error' = "Failed to apply garment"
        /\ pending' = Append(RemoveAt(pending, k), pending[k])
        /\ last' = Op("garmentFail", 0)
        /\ UNCHANGED <<originalUserImageUrl, generatedModelUrl, history, historyIndex,
                       isLoading, wardrobe, minted, start, panelError>>

\* generateVirtualTryOnImage rejects, App.tsx:242-247
TryOnFailure ==
    \E k \in 1..Len(pending) :
        /\ pending[k].kind = "tryon"
        /\ error' = "Failed to apply garment"
        /\ isLoading' = FALSE
        /\ pending' = RemoveAt(pending, k)
        /\ last' = Op("garmentFail", 0)
        /\ UNCHANGED <<originalUserImageUrl, generatedModelUrl, history, historyIndex,
                       wardrobe, minted, start, panelError>>

---------------------------------------------------------------------------
(* Pose selection *)

\* a displayed image without the fallback to a stored pose image
displayImageUrlNoFallback(h, hi, gm) ==
    IF ~HasCurrent(h, hi) THEN gm
    ELSE LET st == currentState(h, hi) IN
         IF Len(st.outfitHistory) = 0 THEN gm
         ELSE IF ~Defined(st.outfitHistory, st.currentOutfitIndex) THEN gm
         ELSE IF HasPose(At(st.outfitHistory, st.currentOutfitIndex).poseImages,
                         st.currentPoseIndex)
         THEN ImageOf(At(st.outfitHistory, st.currentOutfitIndex).poseImages,
                      st.currentPoseIndex)
         ELSE Null

\* displayImageUrl, App.tsx:110-117
displayImageUrl(h, hi, gm) ==
    IF ~HasCurrent(h, hi) THEN gm
    ELSE LET st == currentState(h, hi) IN
         IF Len(st.outfitHistory) = 0 THEN gm
         ELSE IF ~Defined(st.outfitHistory, st.currentOutfitIndex) THEN gm
         ELSE ImageOrFirst(At(st.outfitHistory, st.currentOutfitIndex).poseImages,
                           st.currentPoseIndex)

\* a cached pose change that also goes back to the base layer
cachedPoseStateResetsOutfit(st, newIndex) ==
    [st EXCEPT !.currentPoseIndex = newIndex, !.currentOutfitIndex = 0]

\* the snapshot a cached pose change records, App.tsx:268-271
cachedPoseState(st, newIndex) == [st EXCEPT !.currentPoseIndex = newIndex]

\* a pose change that keeps only the new image of the layer
posedStateForgetsPoses(st, newIndex, newImageUrl) ==
    [st EXCEPT
        !.outfitHistory =
            [j \in 1..Len(st.outfitHistory) |->
                IF j - 1 = st.currentOutfitIndex
                THEN [st.outfitHistory[j] EXCEPT
                        !.poseImages = << [pose |-> newIndex, img |-> newImageUrl] >>]
                ELSE st.outfitHistory[j]],
        !.currentPoseIndex = newIndex]

\* the snapshot a synthesized pose change records, App.tsx:284-301
posedState(st, newIndex, newImageUrl) ==
    [st EXCEPT
        !.outfitHistory =
            [j \in 1..Len(st.outfitHistory) |->
                IF j - 1 = st.currentOutfitIndex
                THEN [st.outfitHistory[j] EXCEPT
                        !.poseImages = PutPose(st.outfitHistory[j].poseImages,
                                               newIndex, newImageUrl)]
                ELSE st.outfitHistory[j]],
        !.currentPoseIndex = newIndex]

\* handlePoseSelect(newIndex) up to its await, App.tsx:261-283, on the render on
\* screen; via is the control of Canvas that called onSelectPose
PoseSelectAt(newIndex, via) ==
    /\ ~(isLoading \/ ~HasCurrent(history, historyIndex)
           \/ newIndex = currentState(history, historyIndex).currentPoseIndex)
    /\ LET cs == currentState(history, historyIndex)
           currentLayer == At(cs.outfitHistory, cs.currentOutfitIndex)
       IN  IF HasPose(currentLayer.poseImages, newIndex)
           THEN LET r == recordNewState(history, historyIndex,
                             cachedPoseState(cs, newIndex))
                IN  /\ history' = r.history
                    /\ historyIndex' = r.historyIndex
                    /\ last' = OpVia("poseCached", Cut(r.history), via)
                    /\ UNCHANGED <<isLoading, error, pending>>
           ELSE IF FirstImage(currentLayer.poseImages) = Null
           THEN /\ last' = OpVia("poseReturn", 0, via)
                /\ UNCHANGED <<history, historyIndex, isLoading, error, pending>>
           ELSE /\ error' = NoError
                /\ isLoading' = TRUE
                /\ pending' = Append(pending,
                       PendingOp("pose", NullGarment, newIndex, << >>,
                                 FirstImage(currentLayer.poseImages), Render))
                /\ last' = OpVia("poseStart", 0, via)
                /\ UNCHANGED <<history, historyIndex>>

\* the pose controls are rendered when displayImageUrl && !isLoading
\* (Canvas.tsx:169); a selection needs room in the bounded log and pending list
PoseControls(maxHistory, maxPending) ==
    /\ generatedModelUrl # Null
    /\ displayImageUrl(history, historyIndex, generatedModelUrl) # Null
    /\ ~isLoading
    /\ Len(pending) < maxPending
    /\ historyIndex + 2 <= maxHistory

\* a button of the pose menu, Canvas.tsx:186-195, over the labels 0..poseCount-1
PoseMenuWithin(poseCount, maxHistory, maxPending) ==
    /\ PoseControls(maxHistory, maxPending)
    /\ \E newIndex \in 0..(poseCount - 1) : PoseSelectAt(newIndex, "menu")
    /\ UNCHANGED <<originalUserImageUrl, generatedModelUrl, wardrobe, minted, start, panelError>>

PoseSelectWithin(maxHistory, maxPending) ==
    PoseMenuWithin(NumPoses, maxHistory, maxPending)

\* availablePoseKeys, App.tsx:119-123: the labels of the current layer in the
\* order of their generation
availablePoseKeys(h, hi) ==
    IF ~HasCurrent(h, hi) THEN << >>
    ELSE LET st == currentState(h, hi) IN
         IF Len(st.outfitHistory) = 0 THEN << >>
         ELSE IF ~Defined(st.outfitHistory, st.currentOutfitIndex) THEN << >>
         ELSE LET pi == At(st.outfitHistory, st.currentOutfitIndex).poseImages
              IN  [j \in 1..Len(pi) |-> pi[j].pose]

\* keys.indexOf(label), from 0, -1 when absent
IndexOf(keys, label) ==
    IF \E j \in 1..Len(keys) : keys[j] = label
    THEN (CHOOSE j \in 1..Len(keys) :
             keys[j] = label /\ \A m \in 1..(j - 1) : keys[m] # label) - 1
    ELSE -1

\* a next-pose that does not wrap at the end of the master list
handleNextPoseNoWrap(poseCount, currentPoseIndex, keys) ==
    LET currentIndexInAvailable == IndexOf(keys, currentPoseIndex)
    IN  IF currentIndexInAvailable = -1 \/ Len(keys) = 0
        THEN currentPoseIndex + 1
        ELSE IF currentIndexInAvailable + 1 < Len(keys)
        THEN At(keys, currentIndexInAvailable + 1)
        ELSE currentPoseIndex + 1

\* a next-pose that always walks the master list
handleNextPoseMasterOrder(poseCount, currentPoseIndex, keys) ==
    (currentPoseIndex + 1) % poseCount

\* the index handleNextPose passes to onSelectPose, Canvas.tsx:64-89
handleNextPose(poseCount, currentPoseIndex, keys) ==
    LET currentIndexInAvailable == IndexOf(keys, currentPoseIndex)
    IN  IF currentIndexInAvailable = -1 \/ Len(keys) = 0
        THEN (currentPoseIndex + 1) % poseCount
        ELSE IF currentIndexInAvailable + 1 < Len(keys)
        THEN At(keys, currentIndexInAvailable + 1)
        ELSE (currentPoseIndex + 1) % poseCount

\* a previous-pose that always walks the master list
handlePreviousPoseMasterOrder(poseCount, currentPoseIndex, keys) ==
    (currentPoseIndex - 1 + poseCount) % poseCount

\* a previous-pose whose fallback goes forward in the master list
handlePreviousPoseFallsForward(poseCount, currentPoseIndex, keys) ==
    LET currentIndexInAvailable == IndexOf(keys, currentPoseIndex)
    IN  IF currentIndexInAvailable = -1
        THEN (currentPoseIndex + 1) % poseCount
        ELSE At(keys, (currentIndexInAvailable - 1 + Len(keys)) % Len(keys))

\* the index handlePreviousPose passes to onSelectPose, Canvas.tsx:43-62
handlePreviousPose(poseCount, currentPoseIndex, keys) ==
    LET currentIndexInAvailable == IndexOf(keys, currentPoseIndex)
    IN  IF currentIndexInAvailable = -1
        THEN (currentPoseIndex - 1 + poseCount) % poseCount
        ELSE At(keys, (currentIndexInAvailable - 1 + Len(keys)) % Len(keys))

\* the Next pose button, Canvas.tsx:213-219
NextPoseWithin(poseCount, maxHistory, maxPending) ==
    /\ PoseControls(maxHistory, maxPending)
    /\ HasCurrent(history, historyIndex)
    /\ PoseSelectAt(handleNextPose(poseCount,
                        currentState(history, historyIndex).currentPoseIndex,
                        availablePoseKeys(history, historyIndex)), "next")
    /\ UNCHANGED <<originalUserImageUrl, generatedModelUrl, wardrobe, minted, start, panelError>>

\* the Previous pose button, Canvas.tsx:202-208; handlePreviousPose returns at
\* once with at most one generated label (Canvas.tsx:44)
PreviousPoseWithin(poseCount, maxHistory, maxPending) ==
    /\ PoseControls(maxHistory, maxPending)
    /\ HasCurrent(history, historyIndex)
    /\ IF Len(availablePoseKeys(history, historyIndex)) <= 1
       THEN /\ last' = OpVia("previousReturn", 0, "previous")
            /\ UNCHANGED <<history, historyIndex, isLoading, error, pending>>
       ELSE PoseSelectAt(handlePreviousPose(poseCount,
                             currentState(history, historyIndex).currentPoseIndex,
                             availablePoseKeys(history, historyIndex)), "previous")
    /\ UNCHANGED <<originalUserImageUrl, generatedModelUrl, wardrobe, minted, start, panelError>>

\* generatePoseVariation resolves, App.tsx:283-301 and 305-308
PoseSuccess ==
    \E k \in 1..Len(pending) :
      \E newImageUrl \in PoseImages(pending[k].img, pending[k].idx) :
        /\ pending[k].kind = "pose"
        /\ LET p == pending[k]
               r == recordNewState(p.h, p.hi,
                        posedState(currentState(p.h, p.hi), p.idx, newImageUrl))
           IN  /\ history' = r.history
               /\ historyIndex' = r.historyIndex
               /\ last' = Op("poseOk", Cut(r.history))
        /\ isLoading' = FALSE
        /\ pending' = RemoveAt(pending, k)
        /\ UNCHANGED <<originalUserImageUrl, generatedModelUrl, error, wardrobe, minted, start, panelError>>

\* a failure path that still records the pose change
PoseFailureRecords ==
    \E k \in 1..Len(pending) :
        /\ pending[k].kind = "pose"
        /\ LET p == pending[k]
               r == recordNewState(p.h, p.hi,
                        [currentState(p.h, p.hi) EXCEPT !.currentPoseIndex = p.idx])
           IN  /\ history' = r.history
               /\ historyIndex' = r.historyIndex
        /\ error' = "Failed to change pose"
        /\ isLoading' = FALSE
        /\ pending' = RemoveAt(pending, k)
        /\ last' = Op("poseFail", 0)
        /\ UNCHANGED <<originalUserImageUrl, generatedModelUrl, wardrobe, minted, start, panelError>>

\* generatePoseVariation rejects, App.tsx:303-308
PoseFailure ==
    \E k \in 1..Len(pending) :
        /\ pending[k].kind = "pose"
        /\ error' = "Failed to change pose"
        /\ isLoading' = FALSE
        /\ pending' = RemoveAt(pending, k)
        /\ last' = Op("poseFail", 0)
        /\ UNCHANGED <<originalUserImageUrl, generatedModelUrl, history, historyIndex,
                       wardrobe, minted, start, panelError>>

---------------------------------------------------------------------------
(* The start screen and the file checks *)

\* the file input of the uploader view (shown while !userImageUrl, part_000:78,
\* 106): handleFileChange and handleFileSelect up to readAsDataURL,
\* part_000:24-53
SelectFile(maxPending) ==
    /\ generatedModelUrl = Null
    /\ start.userImageUrl = Null
    /\ Len(pending) < maxPending
    /\ \E isImage \in BOOLEAN :
         IF ~isImage
         THEN /\ start' = [start EXCEPT !.error = "Please select an image file."]
              /\ last' = Op("fileRejected", 0)
              /\ UNCHANGED pending
         ELSE /\ pending' = Append(pending,
                     PendingOp("read", NullGarment, 0, << >>, UserPhoto, Render))
              /\ last' = Op("fileRead", 0)
              /\ UNCHANGED start
    /\ UNCHANGED <<originalUserImageUrl, generatedModelUrl, history, historyIndex,
                   isLoading, error, wardrobe, minted, panelError>>

\* reader.onload up to its await, part_000:31-37: generateModelImage is called
ReaderLoad ==
    \E k \in 1..Len(pending) :
        /\ pending[k].kind = "read"
        /\ start' = IF pending[k].mounted
                    THEN [userImageUrl |-> pending[k].img, generatedModelUrl |-> Null,
                          isGenerating |-> TRUE, error |-> NoError]
                    ELSE start
        /\ pending' = Append(RemoveAt(pending, k), [pending[k] EXCEPT !.kind = "model"])
        /\ last' = Op("modelStart", 0)
        /\ UNCHANGED <<originalUserImageUrl, generatedModelUrl, history, historyIndex,
                       isLoading, error, wardrobe, minted, panelError>>

\* generateModelImage resolves, part_000:37-38 and 43-45
ModelGenerated ==
    \E k \in 1..Len(pending) :
      \E result \in ModelImages :
        /\ pending[k].kind = "model"
        /\ start' = IF pending[k].mounted
                    THEN [start EXCEPT !.generatedModelUrl = result,
                                       !.isGenerating = FALSE]
                    ELSE start
        /\ pending' = RemoveAt(pending, k)
        /\ last' = Op("modelOk", 0)
        /\ UNCHANGED <<originalUserImageUrl, generatedModelUrl, history, historyIndex,
                       isLoading, error, wardrobe, minted, panelError>>

\* generateModelImage rejects, part_000:39-45
ModelGenerationFailed ==
    \E k \in 1..Len(pending) :
        /\ pending[k].kind = "model"
        /\ start' = IF pending[k].mounted
                    THEN [start EXCEPT !.error = "Failed to create model",
                                       !.userImageUrl = Null,
                                       !.isGenerating = FALSE]
                    ELSE start
        /\ pending' = RemoveAt(pending, k)
        /\ last' = Op("modelFail", 0)
        /\ UNCHANGED <<originalUserImageUrl, generatedModelUrl, history, historyIndex,
                       isLoading, error, wardrobe, minted, panelError>>

\* the buttons of the compare view (shown while userImageUrl, part_000:123):
\* Try Again under the error (part_000:148-154) and Use Different Photo beside
\* Proceed (part_000:157-171)
CompareButtons ==
    /\ generatedModelUrl = Null
    /\ start.userImageUrl # Null

ProceedShown ==
    /\ CompareButtons
    /\ start.generatedModelUrl # Null
    /\ ~start.isGenerating
    /\ start.error = NoError

\* reset, part_000:62-67
ResetStart ==
    /\ CompareButtons
    /\ start.error # NoError \/ ProceedShown
    /\ start' = StartIdle
    /\ last' = Op("reset", 0)
    /\ UNCHANGED <<originalUserImageUrl, generatedModelUrl, history, historyIndex,
                   isLoading, error, wardrobe, pending, minted, panelError>>

\* a Proceed that is offered, and goes on, without a generated model
ProceedUnguarded ==
    /\ CompareButtons
    /\ handleModelFinalized(start.userImageUrl, start.generatedModelUrl)
    /\ start' = StartIdle
    /\ pending' = Unmount(pending)
    /\ UNCHANGED <<isLoading, error, wardrobe, minted, panelError>>

\* the Proceed button and handleProceed, part_000:56-60; with generatedModelUrl
\* set App renders the main view in place of StartScreen (App.tsx:320-331)
Proceed ==
    /\ ProceedShown
    /\ IF start.userImageUrl # Null /\ start.generatedModelUrl # Null
       THEN /\ handleModelFinalized(start.userImageUrl, start.generatedModelUrl)
            /\ start' = StartIdle
            /\ pending' = Unmount(pending)
       ELSE /\ last' = Op("proceedReturn", 0)
            /\ UNCHANGED <<originalUserImageUrl, generatedModelUrl, history,
                           historyIndex, start, pending>>
    /\ UNCHANGED <<isLoading, error, wardrobe, minted, panelError>>

\* a garment upload that sets the error for a file that is not an image and
\* goes on with it
UploadNonImageNoReturn ==
    /\ generatedModelUrl # Null
    /\ ~isLoading
    /\ HasCurrent(history, historyIndex)
    /\ Len(pending) < StartPending
    /\ panelError' = "Please select an image file."
    /\ isLoading' = TRUE
    /\ pending' = Append(pending,
           PendingOp("tryon", customGarment(minted + 1, "shirt"),
                     currentState(history, historyIndex).currentPoseIndex,
                     activeOutfitLayers(currentState(history, historyIndex)),
                     UserPhoto, Render))
    /\ last' = Op("garmentFileRejected", 0)
    /\ UNCHANGED <<originalUserImageUrl, generatedModelUrl, history, historyIndex,
                   error, wardrobe, minted, start>>

\* handleFileChange of the wardrobe panel for a file that is not an image,
\* part_001:77-83; the input is disabled while isLoading (part_001:153)
UploadNonImage ==
    /\ generatedModelUrl # Null
    /\ ~isLoading
    /\ panelError' = "Please select an image file."
    /\ last' = Op("garmentFileRejected", 0)
    /\ UNCHANGED <<originalUserImageUrl, generatedModelUrl, history, historyIndex,
                   isLoading, error, wardrobe, pending, minted, start>>

\* the user events of Spec, within its bounds
RemoveLastGarment == RemoveLastGarmentWithin(MaxHistory)
GarmentClick == GarmentClickWithin(MaxHistory, MaxPending)
UploadGarment == UploadGarmentWithin(MaxHistory, MaxPending)
PoseSelect == PoseSelectWithin(MaxHistory, MaxPending)

\* the user events of SpecDeep: a longer log, one promise outstanding at a time
RemoveLastGarmentDeep == RemoveLastGarmentWithin(DeepHistory)
GarmentClickDeep == GarmentClickWithin(DeepHistory, DeepPending)
UploadGarmentDeep == UploadGarmentWithin(DeepHistory, DeepPending)
PoseSelectDeep == PoseSelectWithin(DeepHistory, DeepPending)

Next ==
    \/ ModelFinalized
    \/ StartOver
    \/ Undo
    \/ Redo
    \/ RemoveLastGarment
    \/ GarmentClick
    \/ UrlResolve
    \/ UrlReject
    \/ UploadGarment
    \/ TryOnSuccess
    \/ TryOnFailure
    \/ PoseSelect
    \/ PoseSuccess
    \/ PoseFailure

Spec == Init /\ [][Next]_vars

NextDeep ==
    \/ ModelFinalized
    \/ StartOver
    \/ Undo
    \/ Redo
    \/ RemoveLastGarmentDeep
    \/ GarmentClickDeep
    \/ UrlResolve
    \/ UrlReject
    \/ UploadGarmentDeep
    \/ TryOnSuccess
    \/ TryOnFailure
    \/ PoseSelectDeep
    \/ PoseSuccess
    \/ PoseFailure

SpecDeep == Init /\ [][NextDeep]_vars

\* the pose navigation over ManyPoses labels, on logs of up to PoseHistory
\* snapshots with PosePending promises outstanding
PoseMenu == PoseMenuWithin(ManyPoses, PoseHistory, PosePending)
NextPose == NextPoseWithin(ManyPoses, PoseHistory, PosePending)
PreviousPose == PreviousPoseWithin(ManyPoses, PoseHistory, PosePending)
RemoveLastGarmentPose == RemoveLastGarmentWithin(PoseHistory)
UploadGarmentPose == UploadGarmentWithin(PoseHistory, PosePending)

NextPoses ==
    \/ ModelFinalized
    \/ StartOver
    \/ Undo
    \/ Redo
    \/ RemoveLastGarmentPose
    \/ UploadGarmentPose
    \/ TryOnSuccess
    \/ TryOnFailure
    \/ PoseMenu
    \/ NextPose
    \/ PreviousPose
    \/ PoseSuccess
    \/ PoseFailure

SpecPoses == Init /\ [][NextPoses]_vars

\* a session in which the user only goes forward (no undo, redo or start over),
\* over ManyPoses labels, on logs of up to ForwardHistory snapshots: deep enough
\* for a garment layer with several poses to come back by removal or garment redo
PoseMenuForward == PoseMenuWithin(ManyPoses, ForwardHistory, PosePending)
NextPoseForward == NextPoseWithin(ManyPoses, ForwardHistory, PosePending)
PreviousPoseForward == PreviousPoseWithin(ManyPoses, ForwardHistory, PosePending)
RemoveLastGarmentForward == RemoveLastGarmentWithin(ForwardHistory)
GarmentClickForward == GarmentClickWithin(ForwardHistory, PosePending)
UploadGarmentForward == UploadGarmentWithin(ForwardHistory, PosePending)

NextForward ==
    \/ ModelFinalized
    \/ RemoveLastGarmentForward
    \/ GarmentClickForward
    \/ UrlResolve
    \/ UrlReject
    \/ UploadGarmentForward
    \/ TryOnSuccess
    \/ TryOnFailure
    \/ PoseMenuForward
    \/ NextPoseForward
    \/ PreviousPoseForward
    \/ PoseSuccess
    \/ PoseFailure

SpecForward == Init /\ [][NextForward]_vars

\* a session from the start screen on: the upload of the photo, the model
\* generation and Proceed are separate steps, and files that are not images are
\* selected too; logs of up to StartHistory snapshots, StartPending promises
SelectFileStart == SelectFile(StartPending)
UploadGarmentStart == UploadGarmentWithin(StartHistory, StartPending)
GarmentClickStart == GarmentClickWithin(StartHistory, StartPending)
RemoveLastGarmentStart == RemoveLastGarmentWithin(StartHistory)

NextStart ==
    \/ SelectFileStart
    \/ ReaderLoad
    \/ ModelGenerated
    \/ ModelGenerationFailed
    \/ ResetStart
    \/ Proceed
    \/ StartOver
    \/ Undo
    \/ Redo
    \/ RemoveLastGarmentStart
    \/ GarmentClickStart
    \/ UrlResolve
    \/ UrlReject
    \/ UploadGarmentStart
    \/ UploadNonImage
    \/ TryOnSuccess
    \/ TryOnFailure

SpecStart == Init /\ [][NextStart]_vars

---------------------------------------------------------------------------
(* Properties *)

\* the synthesis calls (generateVirtualTryOnImage / generatePoseVariation) in flight
SynthesisInFlight == {k \in 1..Len(pending) : pending[k].kind \in {"tryon", "pose"}}

\* the handlers and continuations that call recordNewState
RecordingOps == {"removeLast", "garmentRedo", "poseCached", "garmentOk", "poseOk"}

\* C1: whenever the log is non-empty the cursor satisfies
\* 0 <= historyIndex < history.length, and when the log is empty the cursor is -1.
C1_CursorInRange ==
    IF Len(history) = 0
    THEN historyIndex = -1
    ELSE historyIndex >= 0 /\ historyIndex < Len(history)

\* the cursor has been moved back to the first of several snapshots
C1_Witness ==
    /\ last.op = "undo"
    /\ Len(history) >= 2
    /\ historyIndex = 0

\* the log after the step is L[0..c] followed by one snapshot, cursor on it
RecordedFrom(L, c) ==
    /\ Len(history') = c + 2
    /\ \A i \in 1..(c + 1) : history'[i] = L[i]
    /\ historyIndex' = Len(history') - 1

\* C2: recordNewState(next) on a log L with cursor c yields L[0..c] followed by
\* next with the cursor on the new last index: the snapshots beyond the cursor
\* are discarded and those at or before it are kept unchanged and in order.
\* L and c are the log and cursor of the render whose handler records: the
\* current ones for a handler that records at once, those of the operation's
\* closure for one that records when its promise settles.
C2_RecordTruncatesAndAppends ==
    [][ last'.op \in RecordingOps =>
          \/ /\ pending' = pending
             /\ RecordedFrom(history, historyIndex)
          \/ \E k \in 1..Len(pending) :
                /\ pending' = RemoveAt(pending, k)
                /\ RecordedFrom(pending[k].h, pending[k].hi) ]_vars

\* [s0, s1, s2] at cursor 1 plus s3 has given [s0, s1, s3]
C2_Witness ==
    /\ last.op = "removeLast"
    /\ last.cut = 1
    /\ Len(history) = 3
    /\ historyIndex = 2

\* C3: if undo is enabled (cursor > 0), undo followed immediately by redo leaves
\* the log and the cursor unchanged, and the current snapshot is equal by value
\* to the one before the undo.
C3_UndoThenRedoRestores ==
    canUndo(history, historyIndex) =>
        LET before == Log(history, historyIndex)
            after  == handleRedo(handleUndo(before))
        IN  /\ after.history = history
            /\ after.historyIndex = historyIndex
            /\ currentState(after.history, after.historyIndex)
                 = currentState(history, historyIndex)

\* a redo has run in a log of three snapshots and undo is enabled again
C3_Witness ==
    /\ last.op = "redo"
    /\ canUndo(history, historyIndex)
    /\ Len(history) >= 3
    /\ historyIndex = 1

\* C4: undo and redo change nothing but the cursor: the snapshots of the log and
\* the wardrobe are unchanged and no snapshot is created; undo moves the cursor
\* back by exactly one iff cursor > 0, redo forward by exactly one iff cursor <
\* last index, and each is a no-op at its boundary.
C4_UndoRedoOnlyMoveCursor ==
    /\ [] LET log == Log(history, historyIndex)
              u == handleUndo(log)
              r == handleRedo(log)
          IN  /\ u.history = history
              /\ r.history = history
              /\ u.historyIndex = IF historyIndex > 0 THEN historyIndex - 1 ELSE historyIndex
              /\ r.historyIndex = IF historyIndex < Len(history) - 1
                                  THEN historyIndex + 1 ELSE historyIndex
    /\ [][ /\ last'.op = "undo" =>
                /\ historyIndex' = historyIndex - 1
                /\ history' = history
           /\ last'.op = "redo" =>
                /\ historyIndex' = historyIndex + 1
                /\ history' = history
           /\ last'.op \in {"undo", "redo"} =>
                /\ wardrobe' = wardrobe
                /\ isLoading' = isLoading
                /\ error' = error
                /\ pending' = pending
                /\ generatedModelUrl' = generatedModelUrl
                /\ originalUserImageUrl' = originalUserImageUrl ]_vars

\* an undo has reached the boundary, where a further undo is a no-op
C4_Witness ==
    /\ last.op = "undo"
    /\ historyIndex = 0
    /\ Len(history) = 3

\* C5: finalizeModel(originalImage, modelImage) produces a log of exactly one
\* snapshot with cursor 0; the snapshot has a one-layer outfitHistory whose layer
\* has garment = null and poseImages holding exactly the first master pose label
\* mapped to modelImage, with currentOutfitIndex = 0 and currentPoseIndex = 0.
C5_FinalizeGivesInitialSnapshot ==
    last.op = "finalize" =>
        /\ generatedModelUrl # Null
        /\ originalUserImageUrl # Null
        /\ Len(history) = 1
        /\ historyIndex = 0
        /\ Len(history[1].outfitHistory) = 1
        /\ history[1].outfitHistory[1].garment = NullGarment
        /\ history[1].outfitHistory[1].poseImages
             = << [pose |-> 0, img |-> generatedModelUrl] >>
        /\ history[1].currentOutfitIndex = 0
        /\ history[1].currentPoseIndex = 0

\* a model has just been finalized
C5_Witness ==
    /\ last.op = "finalize"
    /\ Len(history) = 1
    /\ pending = << >>

\* C6: no two synthesis calls are ever in flight at the same time.
C6_AtMostOneSynthesisCall == Cardinality(SynthesisInFlight) <= 1

\* C7: while a synthesis call is outstanding (isLoading is true) neither the
\* log nor its cursor changes until the call has completed.
C7_NoLogChangeWhileBusy ==
    [][ (isLoading /\ SynthesisInFlight # {}
           /\ last'.op \notin {"garmentOk", "garmentFail", "poseOk", "poseFail"})
        => (history' = history /\ historyIndex' = historyIndex) ]_vars

\* C8: a garment-apply whose synthesis call fails leaves the log, the cursor and
\* the wardrobe as they were: issuing the call changes only the error and the
\* busy flag, and so does its failure.
C8_FailedApplyChangesNothing ==
    [][ /\ last'.op \in {"garmentStart", "garmentFail", "garmentThrow"} =>
            /\ history' = history
            /\ historyIndex' = historyIndex
            /\ wardrobe' = wardrobe
            /\ generatedModelUrl' = generatedModelUrl
            /\ originalUserImageUrl' = originalUserImageUrl
        /\ last'.op = "garmentStart" => (isLoading' /\ error' = NoError)
        /\ last'.op = "garmentFail" =>
            (~isLoading' /\ error' = "Failed to apply garment") ]_vars

\* the apply of a garment that is not in the wardrobe has failed
C8_Witness ==
    /\ last.op = "garmentFail"
    /\ error = "Failed to apply garment"
    /\ minted > 0
    /\ Len(wardrobe) = Len(defaultWardrobe)
    /\ Len(history) >= 1

\* C9: a pose change whose synthesis call fails records no snapshot: the log,
\* the cursor and every layer's poseImages are unchanged, and the error is set
\* to a user-facing message.
C9_FailedPoseChangeRecordsNothing ==
    [][ /\ last'.op \in {"poseStart", "poseFail"} =>
            /\ history' = history
            /\ historyIndex' = historyIndex
            /\ wardrobe' = wardrobe
        /\ last'.op = "poseFail" =>
            (~isLoading' /\ error' = "Failed to change pose") ]_vars

\* a pose change has failed
C9_Witness ==
    /\ last.op = "poseFail"
    /\ error = "Failed to change pose"
    /\ Len(history) >= 1

\* C10: the busy flag isLoading is true from before each synthesis call is
\* issued until that call completes.
C10_BusyWhileCallInFlight == SynthesisInFlight # {} => isLoading

\* the snapshot recorded by the step: the last one of the new log
Recorded == history'[Len(history')]

\* the step runs handleGarmentSelect for garment g on snapshot st: from a file
\* upload on the current render, or when the urlToFile of a clicked item resolves
\* on the render of the click; rest is what stays outstanding
SelectsGarment(st, g, rest) ==
    \/ /\ last.op # last'.op \/ pending' # pending \/ history' # history
       /\ minted' = minted + 1
       /\ g = customGarment(minted', g.category)
       /\ HasCurrent(history, historyIndex)
       /\ st = currentState(history, historyIndex)
       /\ rest = pending
    \/ /\ minted' = minted
       /\ \E k \in 1..Len(pending) :
            /\ pending[k].kind = "url"
            /\ g = pending[k].g
            /\ HasCurrent(pending[k].h, pending[k].hi)
            /\ st = currentState(pending[k].h, pending[k].hi)
            /\ rest = RemoveAt(pending, k)

\* the layer after the active ones exists and holds the garment with g's id
NextLayerIs(st, g) ==
    /\ st.currentOutfitIndex + 2 <= Len(st.outfitHistory)
    /\ st.outfitHistory[st.currentOutfitIndex + 2].garment.id = g.id

\* the garments that can be selected
Garments ==
    {wardrobe[j] : j \in 1..Len(wardrobe)}
      \cup {customGarment(n, cat) : n \in 1..(minted + 1), cat \in UploadCategories}
      \cup {pending[k].g : k \in 1..Len(pending)}

\* the snapshots a handler can run on
Snapshots ==
    {history[j] : j \in 1..Len(history)}
      \cup UNION {{pending[k].h[j] : j \in 1..Len(pending[k].h)} : k \in 1..Len(pending)}

\* C11: when the snapshot's outfitHistory has a layer at currentOutfitIndex + 1
\* whose garment id equals the selected garment's id, selecting that garment
\* records a snapshot with the same outfitHistory, currentOutfitIndex + 1 and
\* currentPoseIndex = 0, issues no synthesis call and does not set the busy flag;
\* and only then is a selection served that way.
C11_GarmentRedoRecordsNextLayer ==
    [][ /\ last'.op = "garmentRedo" =>
            \E st \in Snapshots, g \in Garments :
                /\ SelectsGarment(st, g, pending')
                /\ NextLayerIs(st, g)
                /\ Recorded.outfitHistory = st.outfitHistory
                /\ Recorded.currentOutfitIndex = st.currentOutfitIndex + 1
                /\ Recorded.currentPoseIndex = 0
                /\ isLoading' = isLoading
                /\ error' = error
                /\ wardrobe' = wardrobe
        /\ last'.op = "garmentStart" =>
            LET p == pending'[Len(pending')]
            IN  /\ p.kind = "tryon"
                /\ ~NextLayerIs(currentState(p.h, p.hi), p.g) ]_vars

\* a removed garment has been selected again and is the top active layer
C11_Witness ==
    /\ last.op = "garmentRedo"
    /\ HasCurrent(history, historyIndex)
    /\ currentState(history, historyIndex).currentOutfitIndex = 1
    /\ currentState(history, historyIndex).currentPoseIndex = 0
    /\ Len(currentState(history, historyIndex).outfitHistory) = 2
    /\ SynthesisInFlight = {}

\* the step runs handleGarmentSelect on the render on screen: its history and
\* historyIndex are the current ones
OnCurrentRender(st) ==
    /\ HasCurrent(history, historyIndex)
    /\ st = currentState(history, historyIndex)
    /\ \E k \in 1..Len(pending) :
         /\ pending[k].kind = "url"
         /\ pending' = RemoveAt(pending, k)
         /\ pending[k].h = SubSeq(history, 1, historyIndex + 1)
         /\ pending[k].hi = historyIndex

\* C12 as stated: re-selecting the garment of the next layer is a cursor advance
\* and not a truncation of the history log, so the snapshots that lay beyond the
\* log cursor before the operation are still in the log afterwards.
C12_GarmentRedoKeepsLogFuture ==
    [][ \A st \in Snapshots :
          (last'.op = "garmentRedo" /\ OnCurrentRender(st)) =>
              \A j \in (historyIndex + 2)..Len(history) :
                  /\ j <= Len(history')
                  /\ history'[j] = history[j] ]_vars

\* C12 as amended: re-selecting the garment of the next layer advances
\* currentOutfitIndex and keeps every layer of outfitHistory, but it is recorded
\* like any other snapshot: the log is cut after its cursor, the new snapshot is
\* appended and the cursor is put on it, so snapshots beyond the cursor are lost.
C12_GarmentRedoTruncatesLogKeepsLayers ==
    [][ \A st \in Snapshots :
          (last'.op = "garmentRedo" /\ OnCurrentRender(st)) =>
              /\ history' = SubSeq(history, 1, historyIndex + 1) \o <<Recorded>>
              /\ historyIndex' = historyIndex + 1
              /\ Recorded.outfitHistory = st.outfitHistory
              /\ Recorded.currentOutfitIndex = st.currentOutfitIndex + 1 ]_vars

\* a garment redo has replaced a snapshot that lay beyond the log cursor
C12_Witness ==
    /\ last.op = "garmentRedo"
    /\ last.cut >= 1
    /\ historyIndex = Len(history) - 1
    /\ historyIndex >= 3

\* the step is the successful end of the apply of garment g that was started on
\* snapshot st
AppliesGarment(st, g) ==
    /\ last'.op = "garmentOk"
    /\ \E k \in 1..Len(pending) :
         /\ pending[k].kind = "tryon"
         /\ pending' = RemoveAt(pending, k)
         /\ g = pending[k].g
         /\ HasCurrent(pending[k].h, pending[k].hi)
         /\ st = currentState(pending[k].h, pending[k].hi)

\* the positions (from 1) of the active layers of st with the category of g
Matches(st, g) ==
    {j \in 1..(st.currentOutfitIndex + 1) :
        st.outfitHistory[j].garment.category = g.category}

\* the first of them
FirstMatch(st, g) == CHOOSE j \in Matches(st, g) : \A m \in Matches(st, g) : j <= m

\* the garments of a layer sequence, in order
GarmentIds(layers) == [j \in 1..Len(layers) |-> layers[j].garment.id]

\* the active layers of the current snapshot
Active == activeOutfitLayers(currentState(history, historyIndex))

\* C13: when the first active layer with the category of G is at position p > 0
\* and the redo check does not apply, a successful apply records a snapshot whose
\* outfitHistory is the old layers 0..p-1 followed by one new layer for G, with
\* currentOutfitIndex = p; the matched layer and every layer after it are gone.
C13_ReplacementKeepsLayersBelowMatch ==
    [][ \A st \in Snapshots, g \in Garments :
          (AppliesGarment(st, g) /\ ~NextLayerIs(st, g) /\ Matches(st, g) # {}
              /\ FirstMatch(st, g) > 1) =>
              LET p == FirstMatch(st, g) - 1
              IN  /\ Len(Recorded.outfitHistory) = p + 1
                  /\ SubSeq(Recorded.outfitHistory, 1, p) = SubSeq(st.outfitHistory, 1, p)
                  /\ Recorded.outfitHistory[p + 1].garment = g
                  /\ Recorded.currentOutfitIndex = p ]_vars

\* [base, shirtA, X] plus shirtB has given [base, shirtB]
C13_Witness ==
    /\ last.op = "garmentOk"
    /\ historyIndex >= 1
    /\ LET old == history[historyIndex]
       IN  /\ old.currentOutfitIndex = 2
           /\ GarmentIds(Active)[1] = 0
           /\ Len(Active) = 2
           /\ Active[1] = old.outfitHistory[1]
           /\ Active[2].garment.category = old.outfitHistory[2].garment.category
           /\ Active[2].garment.id # old.outfitHistory[2].garment.id
           /\ Active[2].garment.category # old.outfitHistory[3].garment.category

\* C14: when no active layer has the category of the selected garment and the redo
\* check does not apply, a successful apply records a snapshot whose outfitHistory
\* is exactly the old active layers 0..currentOutfitIndex followed by the new
\* layer, with currentOutfitIndex increased by one; the layers beyond the old
\* currentOutfitIndex are discarded.
C14_AppendOnActiveLayers ==
    [][ \A st \in Snapshots, g \in Garments :
          (AppliesGarment(st, g) /\ ~NextLayerIs(st, g) /\ Matches(st, g) = {}) =>
              LET n == st.currentOutfitIndex + 1
              IN  /\ Len(Recorded.outfitHistory) = n + 1
                  /\ SubSeq(Recorded.outfitHistory, 1, n) = SubSeq(st.outfitHistory, 1, n)
                  /\ Recorded.outfitHistory[n + 1].garment = g
                  /\ Recorded.currentOutfitIndex = st.currentOutfitIndex + 1 ]_vars

\* a garment of a new category was applied after a removal: the removed layer is
\* not in the recorded snapshot
C14_Witness ==
    /\ last.op = "garmentOk"
    /\ historyIndex >= 1
    /\ LET old == history[historyIndex]
       IN  /\ old.currentOutfitIndex = 0
           /\ Len(old.outfitHistory) = 2
           /\ Len(Active) = 2
           /\ Len(currentState(history, historyIndex).outfitHistory) = 2
           /\ Active[1] = old.outfitHistory[1]
           /\ Active[2].garment.category # old.outfitHistory[2].garment.category

\* C15: applying a garment whose id equals the garment of the current top active
\* layer (twice in a row, no undo or removal in between) is an append, not a
\* redo: a new layer is added on top of the current top active layer, so the
\* number of active layers grows by one.
C15_SameGarmentTwiceAppends ==
    [][ \A st \in Snapshots, g \in Garments :
          (/\ AppliesGarment(st, g)
           /\ HasCurrent(history, historyIndex)
           /\ Active[Len(Active)].garment.id = g.id) =>
              /\ Len(activeOutfitLayers(Recorded)) = Len(Active) + 1
              /\ SubSeq(Recorded.outfitHistory, 1, Len(Active)) = Active ]_vars

SelectOps == {"garmentRedo", "garmentStart", "garmentThrow", "garmentReturn"}

\* the step is the run of handleGarmentSelect for the k-th outstanding click
ResolvesClick(k) ==
    /\ pending[k].kind = "url"
    /\ last'.op \in SelectOps
    /\ minted' = minted
    /\ Len(pending') >= Len(pending) - 1
    /\ SubSeq(pending', 1, Len(pending) - 1) = RemoveAt(pending, k)

\* C17: remove-last-garment leaves outfitHistory unchanged in the snapshot it
\* records, so selecting the removed garment on that snapshot is served by the
\* garment redo check: no synthesis call is issued and the very same layer is the
\* top active layer again.
C17_RemovedGarmentComesBackByRedo ==
    [][ /\ last'.op = "removeLast" =>
            Recorded.outfitHistory = currentState(history, historyIndex).outfitHistory
        /\ \A k \in 1..Len(pending) :
            (/\ ResolvesClick(k)
             /\ HasCurrent(pending[k].h, pending[k].hi)
             /\ NextLayerIs(currentState(pending[k].h, pending[k].hi), pending[k].g)) =>
                LET st == currentState(pending[k].h, pending[k].hi)
                IN  /\ last'.op = "garmentRedo"
                    /\ pending' = RemoveAt(pending, k)
                    /\ Recorded.outfitHistory = st.outfitHistory
                    /\ activeOutfitLayers(Recorded) =
                           SubSeq(st.outfitHistory, 1, st.currentOutfitIndex + 2) ]_vars

\* a garment was removed and selected again right away: the snapshot before the
\* removal and the one after the redo have the same layers and the same top
C17_Witness ==
    /\ last.op = "garmentRedo"
    /\ historyIndex >= 2
    /\ history[historyIndex - 1].currentOutfitIndex = 1
    /\ history[historyIndex].currentOutfitIndex = 0
    /\ history[historyIndex].outfitHistory = history[historyIndex - 1].outfitHistory
    /\ currentState(history, historyIndex).outfitHistory =
           history[historyIndex - 1].outfitHistory
    /\ Len(Active) = 2
    /\ Active[2].garment.id # 0

\* the labels that are keys of a poseImages map
PoseKeys(pi) == {pi[j].pose : j \in 1..Len(pi)}

\* the layer the snapshot shows
CurrentLayer(st) == st.outfitHistory[st.currentOutfitIndex + 1]

\* C18: selecting a pose index whose label is already a key of the current
\* layer's poseImages issues no synthesis call and records exactly one new
\* snapshot, which differs from the current one only in currentPoseIndex; a
\* synthesis call for a pose is issued only for a label that is not a key.
C18_CachedPoseOnlyMovesPoseIndex ==
    [][ /\ last'.op = "poseCached" =>
            LET cs == currentState(history, historyIndex)
            IN  /\ Recorded.currentPoseIndex \in PoseKeys(CurrentLayer(cs).poseImages)
                /\ Recorded.currentPoseIndex # cs.currentPoseIndex
                /\ Recorded.outfitHistory = cs.outfitHistory
                /\ Recorded.currentOutfitIndex = cs.currentOutfitIndex
                /\ history' = SubSeq(history, 1, historyIndex + 1) \o <<Recorded>>
                /\ historyIndex' = historyIndex + 1
                /\ pending' = pending
                /\ isLoading' = isLoading
        /\ last'.op = "poseStart" =>
            LET cs == currentState(history, historyIndex)
                p  == pending'[Len(pending')]
            IN  /\ p.kind = "pose"
                /\ p.idx \notin PoseKeys(CurrentLayer(cs).poseImages) ]_vars

\* a pose already generated for a garment layer was selected again
C18_Witness ==
    /\ last.op = "poseCached"
    /\ historyIndex >= 1
    /\ Len(Active) >= 2
    /\ Len(Active[Len(Active)].poseImages) >= 2
    /\ history[historyIndex].outfitHistory =
           currentState(history, historyIndex).outfitHistory
    /\ SynthesisInFlight = {}

\* the step is the successful end of the pose change to newIndex that was
\* started on snapshot st
ChangesPose(st, newIndex) ==
    /\ last'.op = "poseOk"
    /\ \E k \in 1..Len(pending) :
         /\ pending[k].kind = "pose"
         /\ pending' = RemoveAt(pending, k)
         /\ newIndex = pending[k].idx
         /\ HasCurrent(pending[k].h, pending[k].hi)
         /\ st = currentState(pending[k].h, pending[k].hi)

\* C19: a pose select that synthesizes a new image never removes or changes an
\* existing pose-to-image entry: the current layer's poseImages is the old map
\* plus exactly one new entry for the selected label, its garment is unchanged
\* and every other layer is identical.
C19_NewPoseOnlyAddsOneEntry ==
    [][ \A st \in Snapshots, newIndex \in Poses :
          ChangesPose(st, newIndex) =>
              LET old == CurrentLayer(st)
                  new == Recorded.outfitHistory[st.currentOutfitIndex + 1]
              IN  /\ Len(Recorded.outfitHistory) = Len(st.outfitHistory)
                  /\ Recorded.currentOutfitIndex = st.currentOutfitIndex
                  /\ \A j \in 1..Len(st.outfitHistory) :
                        j # st.currentOutfitIndex + 1 =>
                            Recorded.outfitHistory[j] = st.outfitHistory[j]
                  /\ new.garment = old.garment
                  /\ Len(new.poseImages) = Len(old.poseImages) + 1
                  /\ SubSeq(new.poseImages, 1, Len(old.poseImages)) = old.poseImages
                  /\ new.poseImages[Len(new.poseImages)].pose = newIndex
                  /\ newIndex \notin PoseKeys(old.poseImages) ]_vars

\* a second pose was generated for a garment layer that lies on other layers
C19_Witness ==
    /\ last.op = "poseOk"
    /\ Len(Active) >= 2
    /\ Active[Len(Active)].garment # NullGarment
    /\ Len(Active[Len(Active)].poseImages) = 2
    /\ Active[Len(Active)].poseImages[2].pose =
           currentState(history, historyIndex).currentPoseIndex

\* the steps from label p to the next label in master order that is not in keys
StepsToUngenerated(poseCount, p, keys) ==
    CHOOSE d \in 1..poseCount :
        /\ d < poseCount => IndexOf(keys, (p + d) % poseCount) = -1
        /\ \A e \in 1..(d - 1) : IndexOf(keys, (p + e) % poseCount) # -1

\* the current pose label is the last of the generated labels of the current layer
AtEndOfGenerated ==
    /\ HasCurrent(history, historyIndex)
    /\ Len(availablePoseKeys(history, historyIndex)) > 0
    /\ availablePoseKeys(history, historyIndex)
           [Len(availablePoseKeys(history, historyIndex))]
         = currentState(history, historyIndex).currentPoseIndex

\* the step is a press of Next pose that triggers the synthesis of newIndex
NextGenerates(newIndex) ==
    /\ last'.via = "next"
    /\ last'.op = "poseStart"
    /\ pending' = Append(pending, pending'[Len(pending')])
    /\ pending'[Len(pending')].kind = "pose"
    /\ pending'[Len(pending')].idx = newIndex

\* C20: at the end of the generated subset, when the current pose label is the
\* last of the current layer's generated labels, "next" selects the first label
\* after the current one in master-list order, wrapping, that has not yet been
\* generated for this layer, and triggers synthesis for it.
C20_NextGeneratesFirstUngenerated ==
    [][ (last'.via = "next" /\ AtEndOfGenerated) =>
            LET cpi  == currentState(history, historyIndex).currentPoseIndex
                keys == availablePoseKeys(history, historyIndex)
            IN  Len(keys) < ManyPoses =>
                    NextGenerates((cpi + StepsToUngenerated(ManyPoses, cpi, keys))
                                      % ManyPoses) ]_vars

\* C21: navigating "previous" never triggers a synthesis call, in every reachable
\* state, also on a layer reached by garment redo or remove-last-garment, where
\* currentPoseIndex was reset to 0 and that label may be absent from the layer.
C21_PreviousNeverSynthesizes ==
    [][ last'.via = "previous" =>
            /\ last'.op # "poseStart"
            /\ pending' = pending
            /\ isLoading' = isLoading ]_vars

\* the current pose label is not among the generated labels of the current layer
LabelAbsent ==
    /\ HasCurrent(history, historyIndex)
    /\ currentState(history, historyIndex).currentPoseIndex
         \notin PoseKeys(CurrentLayer(currentState(history, historyIndex)).poseImages)

\* the step hands newIndex to handlePoseSelect, which shows it from the cache or
\* starts its synthesis
Selects(newIndex) ==
    \/ /\ last'.op = "poseCached"
       /\ Recorded.currentPoseIndex = newIndex
       /\ pending' = pending
    \/ /\ last'.op = "poseStart"
       /\ pending' = Append(pending, pending'[Len(pending')])
       /\ pending'[Len(pending')].kind = "pose"
       /\ pending'[Len(pending')].idx = newIndex

\* C22 as stated: when the current pose label is absent from the current layer's
\* generated labels, next selects (currentPoseIndex + 1) mod N and previous
\* selects (currentPoseIndex - 1) mod N, whatever the size of the generated subset.
C22_AbsentLabelFallsBackBothWays ==
    [][ LabelAbsent =>
            LET cpi == currentState(history, historyIndex).currentPoseIndex
            IN  /\ last'.via = "next" => Selects((cpi + 1) % ManyPoses)
                /\ last'.via = "previous" =>
                       Selects((cpi - 1 + ManyPoses) % ManyPoses) ]_vars

\* C22 as amended: when the current pose label is absent from the current layer's
\* generated labels, next selects (currentPoseIndex + 1) mod N whatever the size
\* of the generated subset; previous selects (currentPoseIndex - 1) mod N only
\* when the layer has at least two generated labels, and does nothing when it
\* has at most one.
C22_AbsentLabelPreviousNeedsTwoLabels ==
    [][ LabelAbsent =>
            LET cpi  == currentState(history, historyIndex).currentPoseIndex
                keys == availablePoseKeys(history, historyIndex)
            IN  /\ last'.via = "next" => Selects((cpi + 1) % ManyPoses)
                /\ (last'.via = "previous" /\ Len(keys) >= 2) =>
                       Selects((cpi - 1 + ManyPoses) % ManyPoses)
                /\ (last'.via = "previous" /\ Len(keys) <= 1) =>
                       /\ last'.op = "previousReturn"
                       /\ UNCHANGED <<history, historyIndex, pending, isLoading>> ]_vars

\* previous was pressed on a garment layer that has one generated label, which is
\* not the current one, and nothing happened
C22_Witness ==
    /\ last.op = "previousReturn"
    /\ LabelAbsent
    /\ Len(availablePoseKeys(history, historyIndex)) = 1
    /\ Len(Active) >= 2
    /\ pending = << >>

\* C23: start over returns to Empty: immediately afterwards the log has no
\* snapshots, the cursor is -1, the model image and the original image are
\* cleared, the busy flag and the error are cleared and the wardrobe is the
\* default set.
C23_StartOverReturnsToEmpty ==
    last.op = "startOver" =>
        /\ history = << >>
        /\ historyIndex = -1
        /\ generatedModelUrl = Null
        /\ originalUserImageUrl = Null
        /\ isLoading = FALSE
        /\ error = NoError
        /\ wardrobe = defaultWardrobe

\* start over was pressed in a session that had added a garment to the wardrobe
\* and still had a promise outstanding
C23_Witness ==
    /\ last.op = "startOver"
    /\ minted >= 1
    /\ Len(pending) >= 1
    /\ wardrobe = defaultWardrobe

\* C24: in every snapshot of the log, layer 0 of outfitHistory has garment = null
\* and every layer at index >= 1 has a garment.
C24_OnlyBaseLayerHasNoGarment ==
    \A j \in 1..Len(history) :
        /\ Len(history[j].outfitHistory) >= 1
        /\ \A i \in 1..Len(history[j].outfitHistory) :
              (history[j].outfitHistory[i].garment = NullGarment) <=> (i = 1)

\* the log holds a snapshot with two garment layers on the base layer, and a later
\* one in which the first of them has been replaced
C24_Witness ==
    /\ Len(history) >= 4
    /\ Len(history[3].outfitHistory) = 3
    /\ Len(history[4].outfitHistory) = 2
    /\ history[4].outfitHistory[2].garment.id # history[3].outfitHistory[2].garment.id
    /\ history[4].outfitHistory[2].garment.id # 0

\* the ids of the wardrobe items, in order
WardrobeIds(w) == [j \in 1..Len(w) |-> w[j].id]

\* C25: after a successful garment apply of G the wardrobe contains G; garment
\* operations change the wardrobe only by adding G at its end when no item with
\* G's id is present, so the item ids stay pairwise distinct and no existing item
\* is removed or replaced.
C25_WardrobeOnlyGrowsByNewIds ==
    [][ /\ \A g \in Garments :
            (\E st \in Snapshots : AppliesGarment(st, g)) =>
                /\ \E j \in 1..Len(wardrobe') : wardrobe'[j] = g
                /\ wardrobe' = IF g.id \in {wardrobe[j].id : j \in 1..Len(wardrobe)}
                               THEN wardrobe
                               ELSE Append(wardrobe, g)
        /\ last'.op \notin {"garmentOk", "startOver"} => wardrobe' = wardrobe
        /\ \A i, j \in 1..Len(wardrobe') :
              wardrobe'[i].id = wardrobe'[j].id => i = j ]_vars

\* an uploaded garment was applied and is now the last item of the wardrobe
C25_Witness ==
    /\ last.op = "garmentOk"
    /\ Len(wardrobe) = Len(defaultWardrobe) + 1
    /\ SubSeq(wardrobe, 1, Len(defaultWardrobe)) = defaultWardrobe
    /\ HasCurrent(history, historyIndex)
    /\ Active[Len(Active)].garment = wardrobe[Len(wardrobe)]

\* the log of the scenario: three snapshots with active stacks [base], [base, G1]
\* and [base, G2], G1 and G2 of one category
ScenarioLog(h) ==
    /\ Len(h) = 3
    /\ GarmentIds(activeOutfitLayers(h[1])) = <<0>>
    /\ Len(activeOutfitLayers(h[2])) = 2
    /\ Len(activeOutfitLayers(h[3])) = 2
    /\ activeOutfitLayers(h[2])[1] = h[1].outfitHistory[1]
    /\ activeOutfitLayers(h[3])[1] = h[1].outfitHistory[1]
    /\ activeOutfitLayers(h[2])[2].garment.id # 0
    /\ activeOutfitLayers(h[3])[2].garment.id # 0
    /\ activeOutfitLayers(h[2])[2].garment.id # activeOutfitLayers(h[3])[2].garment.id
    /\ activeOutfitLayers(h[2])[2].garment.category
         = activeOutfitLayers(h[3])[2].garment.category

\* the step ends the apply of g that was started on the render on screen, whose
\* log is [base], [base, G1] with the cursor on the last
AppliesSecondGarment(g) ==
    /\ last'.op = "garmentOk"
    /\ Len(history) = 2
    /\ historyIndex = 1
    /\ GarmentIds(activeOutfitLayers(history[1])) = <<0>>
    /\ Len(history[2].outfitHistory) = 2
    /\ history[2].currentOutfitIndex = 1
    /\ history[2].outfitHistory[1] = history[1].outfitHistory[1]
    /\ history[2].outfitHistory[2].garment.category = g.category
    /\ history[2].outfitHistory[2].garment.id # g.id
    /\ \E k \in 1..Len(pending) :
         /\ pending[k].kind = "tryon"
         /\ pending[k].g = g
         /\ pending' = RemoveAt(pending, k)
         /\ pending[k].h = history
         /\ pending[k].hi = historyIndex

\* C26: for two garments G1, G2 of the same category: finalizeModel, apply G1,
\* apply G2 gives a log of three snapshots with active stacks [base], [base, G1],
\* [base, G2] and the cursor on the last; undo then shows an active stack of
\* length 2 with layer 1 garment = G1; redo then shows layer 1 garment = G2.
C26_ReplaceUndoRedoScenario ==
    [][ /\ \A g \in Garments :
            AppliesSecondGarment(g) =>
                /\ ScenarioLog(history')
                /\ SubSeq(history', 1, 2) = history
                /\ historyIndex' = 2
                /\ activeOutfitLayers(history'[3])[2].garment = g
        /\ (ScenarioLog(history) /\ historyIndex = 2 /\ last'.op = "undo") =>
                /\ history' = history
                /\ historyIndex' = 1
        /\ (ScenarioLog(history) /\ historyIndex = 1 /\ last'.op = "redo") =>
                /\ history' = history
                /\ historyIndex' = 2 ]_vars

\* the scenario has been played to its end: the redo has put the cursor back on
\* [base, G2]
C26_Witness ==
    /\ last.op = "redo"
    /\ ScenarioLog(history)
    /\ historyIndex = 2
    /\ Len(Active) = 2
    /\ Active[2].garment = history[3].outfitHistory[2].garment
    /\ Len(history[3].outfitHistory) = 2

\* the handlers of a selection by the user that get as far as a synthesis call
StartOps == {"garmentStart", "poseStart"}

\* the failure paths of the two synthesizing handlers
FailOps == {"garmentFail", "poseFail"}

\* C27: after a synthesis failure no further synthesis call is issued until a new
\* selection by the user (garment select, pose select or navigation) is handled:
\* the failure path takes the failed call out and issues none, and every step
\* that issues a synthesis call is the handling of such a selection.
C27_NoRetryAfterFailure ==
    [][ /\ last'.op \in FailOps =>
            \E k \in 1..Len(pending) :
                /\ pending[k].kind \in {"tryon", "pose"}
                /\ pending' = RemoveAt(pending, k)
        /\ last'.op \notin StartOps =>
            /\ Cardinality({j \in 1..Len(pending') :
                                pending'[j].kind \in {"tryon", "pose"}})
                  <= Cardinality(SynthesisInFlight)
            /\ \A j \in 1..Len(pending') :
                  pending'[j].kind \in {"tryon", "pose"} =>
                      \E i \in 1..Len(pending) : pending[i] = pending'[j]
        /\ last'.op \in StartOps =>
            /\ pending'[Len(pending')].kind \in {"tryon", "pose"}
            /\ \A j \in 1..(Len(pending') - 1) :
                  pending'[j].kind \in {"tryon", "pose"} =>
                      \E i \in 1..Len(pending) : pending[i] = pending'[j] ]_vars

\* a synthesis call has failed and nothing is in flight: the error is shown and
\* the controls are free again
C27_Witness ==
    /\ last.op \in FailOps
    /\ pending = << >>
    /\ isLoading = FALSE
    /\ error # NoError
    /\ Len(history) >= 2

\* C28: the log is non-empty exactly when a model is finalized: generatedModelUrl
\* is null if and only if the history log is empty with cursor -1; a synthesis
\* call that was in flight when start over happened puts no snapshot back into
\* the log and no item into the wardrobe when it completes.
C28_LogEmptyIffNoModel ==
    /\ (generatedModelUrl = Null) <=> (history = << >> /\ historyIndex = -1)
    /\ generatedModelUrl = Null => wardrobe = defaultWardrobe

\* the step is the run of handleGarmentSelect for a click on garment g, on the
\* render on screen, whose cursor an undo has moved back over the snapshot that
\* applied g: the snapshot after the cursor has g as its top active layer
ReselectsUndone(g) ==
    /\ HasCurrent(history, historyIndex)
    /\ canRedo(history, historyIndex)
    /\ LET undone == activeOutfitLayers(history[historyIndex + 2])
       IN  /\ undone[Len(undone)].garment = g
           /\ Len(undone) >= Len(Active)
    /\ g.id \notin {Active[j].garment.id : j \in 1..Len(Active)}
    /\ \E k \in 1..Len(pending) :
         /\ ResolvesClick(k)
         /\ pending[k].g = g
         /\ pending[k].h = SubSeq(history, 1, historyIndex + 1)
         /\ pending[k].hi = historyIndex

\* C29 as stated: after undo has moved the cursor back over the snapshot that
\* applied garment G, selecting G again is a free re-apply: it is served by the
\* garment redo check and issues no synthesis call.
C29_ReselectAfterUndoIsFree ==
    [][ \A g \in Garments :
          ReselectsUndone(g) =>
              /\ last'.op = "garmentRedo"
              /\ Len(pending') = Len(pending) - 1 ]_vars

\* C29 as amended: after undo has moved the cursor back over the snapshot that
\* applied garment G, selecting G again is free only when the snapshot now under
\* the cursor still holds G's layer right after its active layers (it was
\* recorded by remove-last-garment); a snapshot from before a synthesized apply
\* of G has no such layer, and selecting G issues a new synthesis call.
C29_ReselectAfterUndoNeedsKeptLayer ==
    [][ \A g \in Garments :
          ReselectsUndone(g) =>
              IF NextLayerIs(currentState(history, historyIndex), g)
              THEN /\ last'.op = "garmentRedo"
                   /\ Len(pending') = Len(pending) - 1
              ELSE /\ last'.op = "garmentStart"
                   /\ Len(pending') = Len(pending)
                   /\ pending'[Len(pending')].kind = "tryon"
                   /\ pending'[Len(pending')].g = g
                   /\ isLoading' ]_vars

\* a synthesized apply was undone and the garment selected again: a synthesis
\* call is in flight for it
C29_Witness ==
    /\ last.op = "garmentStart"
    /\ HasCurrent(history, historyIndex)
    /\ canRedo(history, historyIndex)
    /\ Len(pending) = 1
    /\ pending[1].kind = "tryon"
    /\ Len(Active) = 1
    /\ Len(currentState(history, historyIndex).outfitHistory) = 1
    /\ Len(activeOutfitLayers(history[historyIndex + 2])) = 2
    /\ activeOutfitLayers(history[historyIndex + 2])[2].garment = pending[1].g
    /\ pending[1].g.id < 100

\* the current pose label is one of the generated labels of the current layer
\* and not the last of them in generation order
InsideGenerated ==
    /\ HasCurrent(history, historyIndex)
    /\ LET keys == availablePoseKeys(history, historyIndex)
           at   == IndexOf(keys, currentState(history, historyIndex).currentPoseIndex)
       IN  at # -1 /\ at + 1 < Len(keys)

\* C30: when the current pose label is in the current layer's generated labels
\* and is not the last of them in generation order, "next" selects the label that
\* follows it in generation order, not master-list order; that label is a cached
\* pose, so one snapshot with it is recorded and no synthesis call is issued.
C30_NextWalksGeneratedOrder ==
    [][ (last'.via = "next" /\ InsideGenerated) =>
            LET cs   == currentState(history, historyIndex)
                keys == availablePoseKeys(history, historyIndex)
                at   == IndexOf(keys, cs.currentPoseIndex)
            IN  /\ last'.op = "poseCached"
                /\ pending' = pending
                /\ ~isLoading'
                /\ historyIndex' = historyIndex + 1
                /\ Recorded.currentPoseIndex = keys[at + 2]
                /\ Recorded.currentPoseIndex \in PoseKeys(CurrentLayer(cs).poseImages)
                /\ Recorded.outfitHistory = cs.outfitHistory ]_vars

\* "next" has moved to a cached label that is not the master-list successor of
\* the label it left
C30_Witness ==
    /\ last.via = "next"
    /\ last.op = "poseCached"
    /\ historyIndex >= 1
    /\ LET was == history[historyIndex]
           now == history[historyIndex + 1]
       IN  /\ now.currentPoseIndex # (was.currentPoseIndex + 1) % ManyPoses
           /\ IndexOf(availablePoseKeys(history, historyIndex - 1), was.currentPoseIndex) # -1
           /\ now.outfitHistory = was.outfitHistory

\* C31: when the current pose label is in the current layer's generated labels
\* and that subset has at least two entries, "previous" selects the label
\* preceding it in generation order, wrapping from the first entry to the last
\* (a cached pose: one snapshot recorded, no synthesis call); when the subset has
\* one entry or fewer, "previous" does nothing.
C31_PreviousWalksGeneratedOrder ==
    [][ last'.via = "previous" =>
            LET cs   == currentState(history, historyIndex)
                keys == availablePoseKeys(history, historyIndex)
                at   == IndexOf(keys, cs.currentPoseIndex)
            IN  IF Len(keys) <= 1
                THEN UNCHANGED <<originalUserImageUrl, generatedModelUrl, history,
                                 historyIndex, isLoading, error, wardrobe, pending>>
                ELSE at # -1 =>
                       /\ last'.op = "poseCached"
                       /\ pending' = pending
                       /\ ~isLoading'
                       /\ historyIndex' = historyIndex + 1
                       /\ Recorded.currentPoseIndex =
                              keys[IF at = 0 THEN Len(keys) ELSE at]
                       /\ Recorded.outfitHistory = cs.outfitHistory ]_vars

\* "previous" has wrapped from the first generated label to the last one
C31_Witness ==
    /\ last.via = "previous"
    /\ last.op = "poseCached"
    /\ historyIndex >= 1
    /\ LET keys == availablePoseKeys(history, historyIndex - 1)
           was  == history[historyIndex]
           now  == history[historyIndex + 1]
       IN  /\ Len(keys) >= 2
           /\ was.currentPoseIndex = keys[1]
           /\ now.currentPoseIndex = keys[Len(keys)]
           /\ now.currentPoseIndex # (was.currentPoseIndex - 1 + ManyPoses) % ManyPoses

\* the source image of a synthesized image, the fourth part of its request
SourceOf(img) == img[4]

\* C32: a successful synthesized garment apply keeps currentPoseIndex unchanged
\* and the new layer's poseImages has exactly one entry, keyed by the current pose
\* label; the base image passed to synthesis is the image of the layer under the
\* new one for that label if present, otherwise the first-inserted image of
\* that layer.
C32_ApplyKeepsPoseAndBaseImage ==
    [][ \A st \in Snapshots, g \in Garments :
          AppliesGarment(st, g) =>
              LET layers == Recorded.outfitHistory
                  top    == layers[Len(layers)]
                  under  == layers[Len(layers) - 1]
              IN  /\ Len(layers) >= 2
                  /\ Recorded.currentPoseIndex = st.currentPoseIndex
                  /\ Len(top.poseImages) = 1
                  /\ top.poseImages[1].pose = st.currentPoseIndex
                  /\ Len(under.poseImages) >= 1
                  /\ SourceOf(top.poseImages[1].img) =
                        IF \E j \in 1..Len(under.poseImages) :
                               under.poseImages[j].pose = st.currentPoseIndex
                        THEN under.poseImages[CHOOSE j \in 1..Len(under.poseImages) :
                                 under.poseImages[j].pose = st.currentPoseIndex].img
                        ELSE under.poseImages[1].img ]_vars

\* a garment was applied at the second pose on a layer that has both poses: the
\* base image was the one of the second pose, not the first-inserted one
C32_Witness ==
    /\ last.op = "garmentOk"
    /\ HasCurrent(history, historyIndex)
    /\ LET layers == currentState(history, historyIndex).outfitHistory
           top    == layers[Len(layers)]
           under  == layers[Len(layers) - 1]
       IN  /\ Len(layers) >= 2
           /\ currentState(history, historyIndex).currentPoseIndex = 1
           /\ Len(under.poseImages) = 2
           /\ under.poseImages[2].pose = 1
           /\ SourceOf(top.poseImages[1].img) = under.poseImages[2].img
           /\ SourceOf(top.poseImages[1].img) # under.poseImages[1].img

\* C33: in every state with a snapshot in the log the displayed image is defined
\* and is one of the current layer's stored pose images: the image for the
\* current pose label if that label is cached, otherwise the first-inserted image
\* of that layer; the model image is used only when there is no history.
C33_DisplayedImageIsStoredPoseImage ==
    Len(history) >= 1 =>
        /\ historyIndex >= 0 /\ historyIndex < Len(history)
        /\ LET st == history[historyIndex + 1]
               shown == displayImageUrl(history, historyIndex, generatedModelUrl)
           IN  /\ st.currentOutfitIndex >= 0
               /\ st.currentOutfitIndex < Len(st.outfitHistory)
               /\ LET pi == st.outfitHistory[st.currentOutfitIndex + 1].poseImages
                      cached == {j \in 1..Len(pi) : pi[j].pose = st.currentPoseIndex}
                  IN  /\ shown # Null
                      /\ shown \in {pi[j].img : j \in 1..Len(pi)}
                      /\ IF cached # {}
                         THEN \A j \in cached : shown = pi[j].img
                         ELSE shown = pi[1].img

\* a garment redo has put the pose back to the first label on a layer that was
\* generated at the second one: the first-inserted image is displayed
C33_Witness ==
    /\ Len(history) >= 1
    /\ HasCurrent(history, historyIndex)
    /\ generatedModelUrl # Null
    /\ LET st == currentState(history, historyIndex)
           pi == CurrentLayer(st).poseImages
       IN  /\ st.currentOutfitIndex >= 1
           /\ \A j \in 1..Len(pi) : pi[j].pose # st.currentPoseIndex
           /\ displayImageUrl(history, historyIndex, generatedModelUrl) = pi[1].img

\* C34: in every snapshot of the log, no two layers of outfitHistory (active or
\* not) have garments of the same category, so outfitHistory never holds more
\* garment layers above the base layer than there are categories (five).
C34_OneLayerPerCategory ==
    \A i \in 1..Len(history) :
        LET layers == history[i].outfitHistory
        IN  /\ \A j, m \in 1..Len(layers) :
                 j # m => layers[j].garment.category # layers[m].garment.category
            /\ \A j \in 2..Len(layers) : layers[j].garment.category \in GarmentCategories
            /\ Len(layers) - 1 <= Cardinality(GarmentCategories)

\* a garment was applied on a snapshot that held a layer of its category: the
\* recorded snapshot has the new layer in its place
C34_Witness ==
    /\ last.op = "garmentOk"
    /\ historyIndex >= 1
    /\ HasCurrent(history, historyIndex)
    /\ LET was == history[historyIndex].outfitHistory
           now == history[historyIndex + 1].outfitHistory
       IN  /\ Len(was) = 2
           /\ Len(now) = 2
           /\ was[2].garment.category = now[2].garment.category
           /\ was[2].garment.id # now[2].garment.id

\* C35: in every snapshot of the log, 0 <= currentOutfitIndex <
\* outfitHistory.length and 0 <= currentPoseIndex < the length of the master
\* pose list (its first ManyPoses labels here).
C35_IndicesInRange ==
    \A i \in 1..Len(history) :
        /\ history[i].currentOutfitIndex >= 0
        /\ history[i].currentOutfitIndex < Len(history[i].outfitHistory)
        /\ history[i].currentPoseIndex >= 0
        /\ history[i].currentPoseIndex < ManyPoses

\* "next" has wrapped from the last label of the master list to the first, with
\* the top layer of the outfit as the current one
C35_Witness ==
    /\ last.via = "next"
    /\ historyIndex >= 1
    /\ HasCurrent(history, historyIndex)
    /\ history[historyIndex].currentPoseIndex = ManyPoses - 1
    /\ history[historyIndex + 1].currentPoseIndex = 0
    /\ history[historyIndex + 1].currentOutfitIndex
           = Len(history[historyIndex + 1].outfitHistory) - 1

\* C36: every layer of every snapshot in the log has at least one pose image, so
\* garment apply always finds a base layer and a base image (its two precondition
\* failures never fire) and pose select never returns silently for a missing
\* base image.
C36_EveryLayerHasAnImage ==
    /\ \A i \in 1..Len(history) :
         /\ Len(history[i].outfitHistory) >= 1
         /\ \A j \in 1..Len(history[i].outfitHistory) :
              /\ Len(history[i].outfitHistory[j].poseImages) >= 1
              /\ \A m \in 1..Len(history[i].outfitHistory[j].poseImages) :
                   history[i].outfitHistory[j].poseImages[m].img # Null
    /\ \A st \in Snapshots, g \in Garments :
         /\ Len(baseHistorySlice(st, g)) >= 1
         /\ baseImageForGeneration(st, g) # Null
         /\ FirstImage(CurrentLayer(st).poseImages) # Null
    /\ last.op \notin {"garmentThrow", "poseReturn"}

\* a garment that replaces the one on top has passed both checks: its synthesis
\* call is in flight with the image of the layer under the replaced one
C36_Witness ==
    /\ last.op = "garmentStart"
    /\ HasCurrent(history, historyIndex)
    /\ Len(pending) >= 1
    /\ pending[Len(pending)].kind = "tryon"
    /\ pending[Len(pending)].img # Null
    /\ Len(pending[Len(pending)].base) = 1
    /\ Len(Active) = 2
    /\ Active[2].garment.category = pending[Len(pending)].g.category

\* C37: every garment that appears in any layer of any snapshot in the log is
\* present in the wardrobe (by id), in every reachable state.
C37_LoggedGarmentsAreInWardrobe ==
    \A i \in 1..Len(history) :
        \A j \in 1..Len(history[i].outfitHistory) :
            history[i].outfitHistory[j].garment # NullGarment =>
                InWardrobe(wardrobe, history[i].outfitHistory[j].garment)

\* C38: new snapshots enter the log only through finalizeModel and
\* recordNewState, and each operation adds at most one: a step either leaves the
\* log as it is, or empties it (start over), or keeps a prefix of it unchanged and
\* puts exactly one new snapshot after that prefix, so the log grows by at most
\* one and a snapshot once in the log stays equal by value until it is truncated
\* away.
C38_OneSnapshotPerOperation ==
    [][ \/ history' = history
        \/ history' = << >> /\ last'.op = "startOver"
        \/ /\ last'.op \in RecordingOps \cup {"finalize"}
           /\ last'.op = "finalize" => history = << >>
           /\ Len(history') >= 1
           /\ Len(history') <= Len(history) + 1
           /\ \A i \in 1..(Len(history') - 1) : history'[i] = history[i] ]_vars

\* the step is the selection of a file that is not an image, on the start screen
\* or in the wardrobe panel
SelectsNonImage == last'.op \in {"fileRejected", "garmentFileRejected"}

\* C39: selecting a non-image file (model upload or custom garment upload) is
\* rejected with an error message before any synthesis call: no call is issued,
\* onModelFinalized / onGarmentSelect is not invoked, and the history log and the
\* wardrobe are unchanged.
C39_NonImageFileIsRejected ==
    [][ SelectsNonImage =>
          /\ pending' = pending
          /\ UNCHANGED <<originalUserImageUrl, generatedModelUrl, history,
                         historyIndex, isLoading, error, wardrobe, minted>>
          /\ IF last'.op = "fileRejected"
             THEN /\ start' = [start EXCEPT !.error = "Please select an image file."]
                  /\ panelError' = panelError
             ELSE /\ panelError' = "Please select an image file."
                  /\ start' = start ]_vars

\* a file that is not an image was selected in the wardrobe panel of a session
\* with a garment applied: the panel shows the error
C39_Witness ==
    /\ last.op = "garmentFileRejected"
    /\ panelError = "Please select an image file."
    /\ Len(history) = 2
    /\ historyIndex = 1
    /\ Len(wardrobe) > Len(defaultWardrobe)
    /\ pending = << >>

\* C40: the model is finalized only after a successful model generation:
\* onModelFinalized is invoked only when both the uploaded image and the
\* generated model image are present, with those two images; a failed
\* generateModelImage clears the uploaded image of the start screen that started
\* it and never creates a snapshot.
C40_FinalizedOnlyAfterGeneration ==
    [][ /\ last'.op = "finalize" =>
            /\ start.userImageUrl # Null
            /\ start.generatedModelUrl \in ModelImages
            /\ originalUserImageUrl' = start.userImageUrl
            /\ generatedModelUrl' = start.generatedModelUrl
            /\ history' = << initialState(start.generatedModelUrl) >>
            /\ historyIndex' = 0
        /\ last'.op = "modelFail" =>
            /\ UNCHANGED <<originalUserImageUrl, generatedModelUrl, history,
                           historyIndex, wardrobe>>
            /\ \A k \in 1..Len(pending) :
                 ( /\ pending[k].kind = "model"
                   /\ pending[k].mounted
                   /\ pending' = RemoveAt(pending, k) ) =>
                     /\ start'.userImageUrl = Null
                     /\ start'.error = "Failed to create model"
                     /\ ~start'.isGenerating ]_vars

\* Proceed was pressed on a generated model while a second generation, started
\* from the same start screen, was still outstanding
C40_Witness ==
    /\ last.op = "finalize"
    /\ originalUserImageUrl = UserPhoto
    /\ generatedModelUrl \in ModelImages
    /\ history = << initialState(generatedModelUrl) >>
    /\ \E k \in 1..Len(pending) : pending[k].kind = "model" /\ ~pending[k].mounted

====
